---- MODULE Spec2Model ----
(***************************************************************************)
(* A model of the Cluster Transfer Protocol (CTP) repository:              *)
(*   - the request/response engine of src/ctp/peers.py (Listener,          *)
(*     CTPPeer.send_request),                                              *)
(*   - the control server of src/control-server/server.py (Cluster,        *)
(*     ServerRequestHandler, Server),                                      *)
(*   - the peer workflow of src/client/client.py (sync_files,              *)
(*     sync_manifest) over the file model of src/util/files.py.            *)
(* Each subsystem has its own next-state relation and specification; the   *)
(* variables of the other subsystems keep their initial values.            *)
(***************************************************************************)
EXTENDS Integers, Sequences, FiniteSets, TLC

VARIABLES
    \* ---- src/ctp/peers.py: one peer's Listener and its send_request callers
    responses,             \* Listener._responses: queue of received responses
    new_response_arrived,  \* Listener._new_response_arrived (Event)
    nextRid,               \* number of response objects created so far (object identity)
    pc,                    \* per caller: position in send_request
    seqnum,                \* per caller: seqnum drawn by send_request
    retries,               \* per caller: the retries argument
    attempts,              \* per caller: the attempts counter
    sent,                  \* per caller: datagrams passed to _send_message
    response,              \* per caller: the response send_request returned
    \* ---- src/control-server/server.py: the control server
    peermap,               \* per cluster: Cluster.peermap, peer_id -> address
    peertimers,            \* per cluster: Cluster.peertimers, peer_id -> Timer or None
    untracked,             \* per cluster: armed Timers that peertimers no longer holds
    peer_left,             \* per cluster: Cluster.peer_left (Event)
    watcher,               \* per cluster: position of Server._watch_cluster
    listening,             \* the server's Listener._listen loop is running
    request,               \* the datagram the listener handled in the last step
    outbox,                \* the datagrams the last step passed to sock.sendto
    idle,                  \* per peer: time since the server handled a request of it
    unpublished,           \* per cluster: peers removed since the watcher last pushed
    \* ---- src/client/client.py: one peer running sync_files for a file f
    filesize,              \* f's FileInfo.filesize
    local_peermap,         \* Peer.peermap: the peer ids, in the dict's order
    blocks,                \* f's File.blocks on this peer: block_id -> data, for
                           \* the blocks that are not as block_data says
    block_idx,             \* the block sync_files is at
    counter,               \* sync_files' request counter
    sync_pc,               \* position in sync_files
    disk,                  \* which of f and f.crtemp exist in the shared directory
    \* ---- the server's descriptors and manifest
    fileinfo_map,          \* Server.fileinfo_map: filename -> FileInfo
    crinfo_dir,            \* shareddir/crinfo: filename -> bytes of <filename>.crinfo
    manifest_file,         \* manifestdir: the bytes of .crmanifest
    file_response,         \* the response to the last request the server handled
    \* ---- sync_manifest of one peer against the server
    manifest_info,         \* the peer's FileInfo of the manifest
    manifest_blocks,       \* the peer's manifest File.blocks: block_id -> data
    manifest_idx,          \* the block _update_manifest_file is at
    manifest_pc,           \* position in sync_manifest, or the exception it raised
    manifest_disk,         \* the manifest directory: the manifest file and its bytes, its .crtemp
    manifest_filelist,     \* Peer.manifest_filelist
    \* ---- a peer's peermap under PEERLIST_PUSH
    peer_peermap,          \* Peer.peermap: its PeerInfos, in the order of the dict
    push_body,             \* the body of the last PEERLIST_PUSH the peer handled
    push_sent,             \* the response its handler sent for it, or None
    \* ---- src/ctp/peers.py: one send_request call and the handler answering it
    msg_type_arg,          \* the msg_type argument
    req_seqnum,            \* the seqnum send_request drew
    req_retries,           \* the retries argument
    req_timeout,           \* the timeout argument
    req_attempts,          \* the attempts counter
    req_pc,                \* position in send_request
    datagrams,             \* the packets send_request passed to sock.sendto
    reads,                 \* the calls of Listener.get_response it made
    req_result,            \* what send_request returned or raised
    resp_queue,            \* Listener._responses of the requester
    handled,               \* datagrams the destination's handler has handled
    handler_raised,        \* send_response of the destination raised
    \* ---- src/util/files.py: a partially downloaded File and its CRTEMP file
    temp_blocks,           \* File.blocks of the file in memory
    crtemp_file,           \* <filename>.crtemp in the shared directory
    loaded,                \* what File.from_temp_file returned or raised
    \* ---- src/util/files.py: a Block packed and unpacked
    block_in,              \* the Block that is packed
    block_packet,          \* Block.pack of it
    block_out,             \* Block.unpack of the packet
    block_pc,              \* "idle", "packed" or "unpacked"
    \* ---- src/ctp/ctp.py: a CTPMessage packed and unpacked
    msg_in,                \* the CTPMessage that is packed
    msg_packet,            \* CTPMessage.pack of it
    msg_out,               \* CTPMessage.unpack of the packet
    msg_pc,                \* "idle", "packed" or "unpacked"
    \* ---- src/util/files.py: a SharedDirectory and its directory D on disk
    data_files,            \* D: filename -> the data file <filename>, if it exists
    temp_files,            \* D: filename -> the file <filename>.crtemp, if it exists
    crinfo_files,          \* D/crinfo: filename -> <filename>.crinfo, if it exists
    stray,                 \* D/crinfo holds a file that is not a .crinfo file
    filemap,               \* SharedDirectory.filemap: filename -> File.blocks
    todo,                  \* children the running loop of refresh has yet to visit
    loaded_crinfos,        \* refresh's loaded_crinfos, by filename
    refresh_pc,            \* position in refresh, or "raised"
    populated,             \* the directory has been filled
    \* ---- src/control-server/server.py: Server.end
    ended,                 \* Server.end() has returned
    \* ---- src/client/client.py: _req_missing_fileinfos_from_manifest
    shared_filemap,        \* Peer.shareddir.filemap: filename -> File.blocks
    local_before,          \* the keys of shareddir.filemap when sync_manifest began
    missing_idx,           \* position of the loop in manifest_filelist
    missing_pc,            \* "idle", "loop", "returned" or the exception raised
    \* ---- src/util/files.py: SharedDirectory.add_fileinfo
    add_result,            \* the last add_fileinfo call: its arguments and outcome
    \* ---- src/client/client.py: Peer.store_file
    stored_name,           \* the file store_file has stored since the last block arrived
    \* ---- src/client/client.py: get_peer beside _parse_peerlist
    shared_peermap,        \* self.peermap: the peer_ids, in insertion order
    push_prev,             \* the peermap before the push being handled
    push_new,              \* the peermap that push will leave
    push_todo,             \* the PeerInfos _parse_peerlist has still to insert
    get_pc,                \* where get_peer is
    get_counter,           \* context["counter"]
    peer_index,            \* get_peer's local peer_index
    get_peer_id,           \* get_peer's local peer_id
    get_seen,              \* the peermap as get_peer last read it
    get_result,            \* what get_peer returned
    \* ---- src/client/client.py: PeerRequestHandler.handle
    peer_handled,          \* the last request the peer's handler handled, and its response
    \* ---- src/control-server/server.py: the threads of one cluster, step by step
    cl_peermap,            \* the peer_ids of cluster.peermap
    cl_timers,             \* cluster.peertimers: "absent", "None" or "started" per peer
    cl_peer_left,          \* cluster.peer_left is set
    listener_pc,           \* the listener thread: "recv", "reset" or "crashed"
    listener_peer,         \* the sender of the request being handled
    timer_pc,              \* per peer, the Timer thread: "idle" or "remove"
    watch_pc,              \* the watcher thread: "wait", "iterate" or "crashed"
    iter_size,             \* len(peermap) when the iteration of push_peerlist began
    iter_left,             \* the peers the iteration has not yet visited
    \* ---- src/control-server/server.py: Server.send_request from several threads
    self_cluster_id,       \* the server's field self.cluster_id
    send_pc,               \* per thread, where its Server.send_request is
    send_arg,              \* per thread, the cluster_id argument of its call
    pushed,                \* the PEERLIST_PUSHes sent: the cluster of the peer, the id carried
    \* ---- src/ctp/peers.py: successive send_request calls of one peer
    call_id,               \* the number of send_request calls begun
    call_pc,               \* where the current call is
    call_seqnum,           \* its seqnum
    call_retries,          \* its retries argument
    call_attempts,         \* its attempts
    unanswered,            \* the datagrams sent that the destination has not answered yet
    left_queue,            \* listener._responses: seqnum and the call whose datagram was answered
    call_response          \* what the current call returned

ctpVars == <<responses, new_response_arrived, nextRid, pc, seqnum, retries,
             attempts, sent, response>>

srvVars == <<peermap, peertimers, untracked, peer_left, watcher, listening,
             request, outbox, idle, unpublished>>

syncVars == <<filesize, local_peermap, blocks, block_idx, counter, sync_pc, disk>>

filesVars == <<fileinfo_map, crinfo_dir, manifest_file, file_response>>

manifestVars == <<manifest_info, manifest_blocks, manifest_idx, manifest_pc,
                  manifest_disk, manifest_filelist>>

pushVars == <<peer_peermap, push_body, push_sent>>

requestVars == <<msg_type_arg, req_seqnum, req_retries, req_timeout,
                 req_attempts, req_pc, datagrams, reads, req_result,
                 resp_queue, handled, handler_raised>>

tempVars == <<temp_blocks, crtemp_file, loaded>>

blockVars == <<block_in, block_packet, block_out, block_pc>>

codecVars == <<msg_in, msg_packet, msg_out, msg_pc>>

dirVars == <<data_files, temp_files, crinfo_files, stray, filemap, todo,
            loaded_crinfos, refresh_pc, populated>>

endVars == <<ended>>

missingVars == <<shared_filemap, local_before, missing_idx, missing_pc>>

addVars == <<add_result>>

storeVars == <<stored_name>>

raceVars == <<shared_peermap, push_prev, push_new, push_todo, get_pc, get_counter, peer_index, get_peer_id, get_seen, get_result>>

handleVars == <<peer_handled>>

threadVars == <<cl_peermap, cl_timers, cl_peer_left, listener_pc, listener_peer, timer_pc, watch_pc, iter_size, iter_left>>

sendVars == <<self_cluster_id, send_pc, send_arg, pushed>>

callVars == <<call_id, call_pc, call_seqnum, call_retries, call_attempts, unanswered, left_queue, call_response>>

vars == <<ctpVars, srvVars, syncVars, filesVars, manifestVars, pushVars,
          requestVars, tempVars,
          blockVars,
          codecVars,
          dirVars,
          endVars,
          missingVars,
          addVars,
          storeVars,
          raceVars,
          handleVars,
          threadVars,
          sendVars,
          callVars>>

\* The variables a subsystem leaves alone.
notCtpVars == <<srvVars, syncVars, filesVars, manifestVars, pushVars, requestVars,
    tempVars, blockVars, codecVars, dirVars, endVars, missingVars, addVars, storeVars, raceVars, handleVars, threadVars, sendVars, callVars>>
notSrvVars == <<ctpVars, syncVars, filesVars, manifestVars, pushVars, requestVars,
    tempVars, blockVars, codecVars, dirVars, endVars, missingVars, addVars, storeVars, raceVars, handleVars, threadVars, sendVars, callVars>>
notSyncVars == <<ctpVars, srvVars, filesVars, manifestVars, pushVars, requestVars,
    tempVars, blockVars, codecVars, dirVars, endVars, missingVars, addVars, storeVars, raceVars, handleVars, threadVars, sendVars, callVars>>
notManifestVars == <<ctpVars, srvVars, syncVars, pushVars, requestVars,
    tempVars, blockVars, codecVars, dirVars, endVars, missingVars, addVars, storeVars, raceVars, handleVars, threadVars, sendVars, callVars>>
notFilesVars == <<ctpVars, srvVars, syncVars, manifestVars, pushVars, requestVars,
    tempVars, blockVars, codecVars, dirVars, endVars, missingVars, addVars, storeVars, raceVars, handleVars, threadVars, sendVars, callVars>>
notPushVars == <<ctpVars, srvVars, syncVars, filesVars, manifestVars, requestVars,
    tempVars, blockVars, codecVars, dirVars, endVars, missingVars, addVars, storeVars, raceVars, handleVars, threadVars, sendVars, callVars>>
notRequestVars == <<ctpVars, srvVars, syncVars, filesVars, manifestVars, pushVars,
    tempVars, blockVars, codecVars, dirVars, endVars, missingVars, addVars, storeVars, raceVars, handleVars, threadVars, sendVars, callVars>>
notTempVars == <<ctpVars, srvVars, syncVars, filesVars, manifestVars, pushVars,
    requestVars, blockVars, codecVars, dirVars, endVars, missingVars, addVars, storeVars, raceVars, handleVars, threadVars, sendVars, callVars>>
notCallVars == <<ctpVars, srvVars, syncVars, filesVars, manifestVars, pushVars, requestVars, tempVars, blockVars, codecVars, dirVars, endVars, missingVars, addVars, storeVars, raceVars, handleVars, threadVars, sendVars>>
notSendVars == <<ctpVars, srvVars, syncVars, filesVars, manifestVars, pushVars, requestVars, tempVars, blockVars, codecVars, dirVars, endVars, missingVars, addVars, storeVars, raceVars, handleVars, threadVars, callVars>>
notThreadVars == <<ctpVars, srvVars, syncVars, filesVars, manifestVars, pushVars, requestVars, tempVars, blockVars, codecVars, dirVars, endVars, missingVars, addVars, storeVars, raceVars, handleVars, sendVars, callVars>>
notHandleVars == <<ctpVars, srvVars, syncVars, filesVars, manifestVars, pushVars, requestVars, tempVars, blockVars, codecVars, dirVars, endVars, missingVars, addVars, storeVars, raceVars, threadVars, sendVars, callVars>>
notRaceVars == <<ctpVars, srvVars, syncVars, filesVars, manifestVars, pushVars, requestVars, tempVars, blockVars, codecVars, dirVars, endVars, missingVars, addVars, storeVars, handleVars, threadVars, sendVars, callVars>>
notStoreVars == <<ctpVars, srvVars, syncVars, filesVars, manifestVars, pushVars, requestVars, tempVars, blockVars, codecVars, dirVars, endVars, missingVars, addVars, raceVars, handleVars, threadVars, sendVars, callVars>>
notAddVars == <<ctpVars, srvVars, syncVars, filesVars, manifestVars, pushVars, requestVars, tempVars, blockVars, codecVars, dirVars, endVars, missingVars, storeVars, raceVars, handleVars, threadVars, sendVars, callVars>>
notMissingVars == <<ctpVars, srvVars, syncVars, filesVars, manifestVars, pushVars, requestVars, tempVars, blockVars, codecVars, dirVars, endVars, addVars, storeVars, raceVars, handleVars, threadVars, sendVars, callVars>>
notEndVars == <<ctpVars, srvVars, syncVars, filesVars, manifestVars, pushVars, requestVars, tempVars, blockVars, codecVars, dirVars, missingVars, addVars, storeVars, raceVars, handleVars, threadVars, sendVars, callVars>>
notDirVars == <<ctpVars, srvVars, syncVars, filesVars, manifestVars, pushVars, requestVars, tempVars, blockVars, codecVars, endVars, missingVars, addVars, storeVars, raceVars, handleVars, threadVars, sendVars, callVars>>
notCodecVars == <<ctpVars, srvVars, syncVars, filesVars, manifestVars, pushVars, requestVars, tempVars, blockVars, dirVars, endVars, missingVars, addVars, storeVars, raceVars, handleVars, threadVars, sendVars, callVars>>
notBlockVars == <<ctpVars, srvVars, syncVars, filesVars, manifestVars, pushVars, requestVars, tempVars, codecVars, dirVars, endVars, missingVars, addVars, storeVars, raceVars, handleVars, threadVars, sendVars, callVars>>

None == [none |-> TRUE]

(***************************************************************************)
(* Bounds of the model.                                                    *)
(***************************************************************************)
MaxRetries == 1        \* the retries argument ranges over 0..MaxRetries
MaxResp == 2           \* responses the listener receives in one run

Callers == {"t1", "t2"}          \* caller tasks of one peer
SeqNums == {0, 1}                \* values randint() yields in the model
RespSeqNums == {0, 1, 2}         \* seqnums carried by incoming responses

(***************************************************************************)
(* src/ctp/peers.py                                                        *)
(***************************************************************************)

\* Positions in the queue whose response carries the expected seqnum.
Matching(q, expected_seqnum) ==
    {i \in 1..Len(q) : q[i].seqnum = expected_seqnum}

\* deque.remove(tup): the queue without its entry at position i.
QueueRemove(q, i) == SubSeq(q, 1, i - 1) \o SubSeq(q, i + 1, Len(q))

\* Mutant of ScanResponses: the matched entry is returned but left in the queue.
ScanResponsesNoRemove(q, expected_seqnum) ==
    IF Matching(q, expected_seqnum) = {}
    THEN [found |-> FALSE, resp |-> None, queue |-> q]
    ELSE LET i == CHOOSE k \in Matching(q, expected_seqnum) :
                      \A j \in Matching(q, expected_seqnum) : k <= j
         IN [found |-> TRUE, resp |-> q[i], queue |-> q]

\* One pass of get_response over the queue, under the queue mutex: the first
\* entry whose seqnum is the expected one is removed and returned.
ScanResponses(q, expected_seqnum) ==
    IF Matching(q, expected_seqnum) = {}
    THEN [found |-> FALSE, resp |-> None, queue |-> q]
    ELSE LET i == CHOOSE k \in Matching(q, expected_seqnum) :
                      \A j \in Matching(q, expected_seqnum) : k <= j
         IN [found |-> TRUE, resp |-> q[i], queue |-> QueueRemove(q, i)]

CtpInit ==
    /\ responses = <<>>
    /\ new_response_arrived = FALSE
    /\ nextRid = 0
    /\ pc = [c \in Callers |-> "idle"]
    /\ seqnum = [c \in Callers |-> 0]
    /\ retries = [c \in Callers |-> 0]
    /\ attempts = [c \in Callers |-> 0]
    /\ sent = [c \in Callers |-> 0]
    /\ response = [c \in Callers |-> None]

\* Listener._listen receives a datagram that is a response: it is put on the
\* queue and the arrival event is set.
ListenResponse(s) ==
    /\ nextRid < MaxResp
    /\ nextRid' = nextRid + 1
    /\ responses' = Append(responses, [seqnum |-> s, rid |-> nextRid + 1])
    /\ new_response_arrived' = TRUE
    /\ UNCHANGED <<pc, seqnum, retries, attempts, sent, response>>
    /\ UNCHANGED notCtpVars

\* send_request up to its retry loop: the seqnum is drawn once, attempts = 0.
SendRequestBegin(c, s, r) ==
    /\ pc[c] = "idle"
    /\ pc' = [pc EXCEPT ![c] = "loop"]
    /\ seqnum' = [seqnum EXCEPT ![c] = s]
    /\ retries' = [retries EXCEPT ![c] = r]
    /\ attempts' = [attempts EXCEPT ![c] = 0]
    /\ UNCHANGED <<responses, new_response_arrived, nextRid, sent, response>>
    /\ UNCHANGED notCtpVars

\* Mutant of MaxAttempts: the loop runs `while attempts < retries`.
MaxAttemptsOffByOne(r) == r

\* `while attempts <= retries` with attempts counted from 0: the number of
\* passes through the retry loop.
MaxAttempts(r) == r + 1

\* One iteration of `while attempts <= retries`: the datagram is sent and
\* get_response scans the queue once before it starts its timer.
SendRequestAttempt(c) ==
    /\ pc[c] = "loop"
    /\ attempts[c] < MaxAttempts(retries[c])
    /\ attempts' = [attempts EXCEPT ![c] = @ + 1]
    /\ sent' = [sent EXCEPT ![c] = @ + 1]
    /\ LET r == ScanResponses(responses, seqnum[c] + 1)
       IN /\ responses' = r.queue
          /\ IF r.found
             THEN /\ response' = [response EXCEPT ![c] = r.resp]
                  /\ pc' = [pc EXCEPT ![c] = "returned"]
             ELSE /\ response' = response
                  /\ pc' = [pc EXCEPT ![c] = "wait"]
    /\ UNCHANGED <<new_response_arrived, nextRid, seqnum, retries>>
    /\ UNCHANGED notCtpVars

\* get_response's wait loop wakes (the arrival event is set, the timer has not
\* fired) and finds the expected response.
GetResponseWake(c) ==
    /\ pc[c] = "wait"
    /\ new_response_arrived
    /\ LET r == ScanResponses(responses, seqnum[c] + 1)
       IN /\ r.found
          /\ responses' = r.queue
          /\ response' = [response EXCEPT ![c] = r.resp]
          /\ pc' = [pc EXCEPT ![c] = "returned"]
    /\ UNCHANGED <<new_response_arrived, nextRid, seqnum, retries, attempts, sent>>
    /\ UNCHANGED notCtpVars

\* get_response's timer fires: it returns None without another scan, and
\* send_request counts the attempt as a timeout.
GetResponseTimeout(c) ==
    /\ pc[c] = "wait"
    /\ pc' = [pc EXCEPT ![c] = "loop"]
    /\ UNCHANGED <<responses, new_response_arrived, nextRid, seqnum, retries,
                   attempts, sent, response>>
    /\ UNCHANGED notCtpVars

\* The loop ends without a response: CTPConnectionError.
SendRequestFail(c) ==
    /\ pc[c] = "loop"
    /\ ~(attempts[c] < MaxAttempts(retries[c]))
    /\ pc' = [pc EXCEPT ![c] = "failed"]
    /\ UNCHANGED <<responses, new_response_arrived, nextRid, seqnum, retries,
                   attempts, sent, response>>
    /\ UNCHANGED notCtpVars

(***************************************************************************)
(* src/control-server/server.py                                            *)
(***************************************************************************)

TIMEOUT_INTERVAL == 30           \* Cluster.TIMEOUT_INTERVAL, in seconds
Resolution == 2                  \* clock steps per TIMEOUT_INTERVAL
MaxUntracked == 1                \* untracked timers of a cluster at one time
TickLen == TIMEOUT_INTERVAL \div Resolution

KnownClusters == {"c1"}                   \* clusters given to add_cluster
ClusterIds == KnownClusters \cup {"c9"}   \* cluster ids a datagram may carry
PeerIds == {1, 2, 3}                      \* peer ids, ordered as their strings are
TwoPeers == {1, 2}
Addrs == {"a1", "a2"}                     \* source addresses of datagrams
RequestTypes == {"CLUSTER_JOIN_REQUEST", "STATUS_REQUEST"}
SERVER_PEER_ID == "000____ctp_server_peer_id____000"

\* Values of a peertimers entry: None, or a Timer that was started and has
\* `rem` seconds left, or a Timer that was cancelled.
NoTimer == [st |-> "None"]
Timer(rem) == [st |-> "started", rem |-> rem]
Cancelled == [st |-> "cancelled"]

\* Timer.is_alive(): true from start() until the callback has returned (so
\* also inside the callback) unless the Timer was cancelled.
is_alive(t) == t.st = "started"

NoRequest == [msg_type |-> "None"]

\* sorted(): the elements of a set of ids in ascending order.
RECURSIVE sorted(_)
sorted(S) ==
    IF S = {} THEN <<>>
    ELSE LET m == CHOOSE x \in S : \A y \in S : x <= y
         IN <<m>> \o sorted(S \ {m})

\* The fields of one Cluster object.
ClusterOf(c) ==
    [peermap |-> peermap[c], peertimers |-> peertimers[c],
     untracked |-> untracked[c], peer_left |-> peer_left[c]]

\* Cluster.generate_peerlist: one line "peer_id host port" per peermap entry,
\* in the order of sorted(peermap.keys()).
generate_peerlist(pm) ==
    LET ids == sorted(DOMAIN pm)
    IN [i \in 1..Len(ids) |-> [peer_id |-> ids[i], address |-> pm[ids[i]]]]

\* Cluster.start_peertimer: peertimers[peer_id] is overwritten with a new
\* started Timer; a started Timer it held keeps running, referenced by nothing.
start_peertimer(cl, p) ==
    LET held == p \in DOMAIN cl.peertimers /\ cl.peertimers[p].st = "started"
    IN [cl EXCEPT
          !.peertimers = (p :> Timer(TIMEOUT_INTERVAL)) @@ cl.peertimers,
          !.untracked = IF held
                        THEN Append(cl.untracked,
                                    [peer_id |-> p, rem |-> cl.peertimers[p].rem])
                        ELSE cl.untracked]

\* Cluster.reset_peertimer: cancel the held Timer, then start_peertimer.
reset_peertimer(cl, p) ==
    start_peertimer([cl EXCEPT !.peertimers[p] = Cancelled], p)

\* Mutant of add_peer: an entry the peermap holds for the peer is kept.
add_peerKeepsEntry(cl, p, a) ==
    start_peertimer([cl EXCEPT !.peermap = cl.peermap @@ (p :> a)], p)

\* Cluster.add_peer: the peermap entry is set (overriding), then start_peertimer.
add_peer(cl, p, a) ==
    start_peertimer([cl EXCEPT !.peermap = (p :> a) @@ cl.peermap], p)

\* Mutant of remove_peer: the peer is popped, peer_left is not set.
remove_peerNoSignal(cl, p) ==
    [cl EXCEPT !.peermap = [q \in DOMAIN cl.peermap \ {p} |-> cl.peermap[q]]]

\* Cluster.remove_peer: peermap.pop(peer_id, None); peer_left.set().
remove_peer(cl, p) ==
    [cl EXCEPT !.peermap = [q \in DOMAIN cl.peermap \ {p} |-> cl.peermap[q]],
               !.peer_left = TRUE]

\* Cluster.peer_timeout, the callback of every Timer started for peer_id.  When
\* peertimers[peer_id] is None, is_alive() raises AttributeError and the
\* callback's thread ends there.
peer_timeout(cl, p) ==
    IF cl.peertimers[p].st = "None" THEN cl
    ELSE remove_peer(IF is_alive(cl.peertimers[p])
                     THEN [cl EXCEPT !.peertimers[p] = NoTimer]
                     ELSE cl, p)

\* RequestHandler.send_response: the response datagram for a request.
Response(req, msg_type, data) ==
    [msg_type |-> msg_type, seqnum |-> req.seqnum + 1, data |-> data,
     cluster_id |-> req.cluster_id, sender_id |-> SERVER_PEER_ID,
     dest |-> req.addr]

\* Mutant of push_peerlist: the excluded peer_id is not skipped.
push_peerlistToAll(c, pm, excluded) ==
    LET ids == sorted(DOMAIN pm)
    IN [i \in 1..Len(ids) |->
          [msg_type |-> "PEERLIST_PUSH", data |-> generate_peerlist(pm),
           cluster_id |-> c, sender_id |-> SERVER_PEER_ID,
           to |-> ids[i], dest |-> pm[ids[i]]]]

\* Server.push_peerlist: one PEERLIST_PUSH with the generated peer list per
\* peermap entry whose peer_id is not the excluded one.  `to` is the peer_id
\* of the entry the loop sent it for.  The order of the datagrams (the dict's
\* order) is not modelled: they are listed by ascending peer_id.
push_peerlist(c, pm, excluded) ==
    LET ids == sorted(DOMAIN pm \ excluded)
    IN [i \in 1..Len(ids) |->
          [msg_type |-> "PEERLIST_PUSH", data |-> generate_peerlist(pm),
           cluster_id |-> c, sender_id |-> SERVER_PEER_ID,
           to |-> ids[i], dest |-> pm[ids[i]]]]

\* Mutant of handle_status_request: the sender is added to the cluster.
handle_status_requestAddsPeer(cl, req) ==
    [cluster |-> add_peer(cl, req.sender_id, req.addr),
     sent |-> <<Response(req, "STATUS_RESPONSE", "status: 1")>>]

\* ServerRequestHandler.handle_status_request.
handle_status_request(cl, req) ==
    [cluster |-> cl, sent |-> <<Response(req, "STATUS_RESPONSE", "status: 1")>>]

\* ServerRequestHandler.handle_cluster_join_request.
handle_cluster_join_request(cl, req) ==
    IF req.cluster_id \notin KnownClusters
    THEN [cluster |-> cl,
          sent |-> <<Response(req, "INVALID_REQ", "No such cluster.")>>]
    ELSE LET joined == add_peer(cl, req.sender_id, req.addr)
         IN [cluster |-> joined,
             sent |-> <<Response(req, "CLUSTER_JOIN_RESPONSE",
                                 generate_peerlist(joined.peermap))>>
                      \o push_peerlist(req.cluster_id, joined.peermap,
                                       {req.sender_id})]

\* The four fields of cluster c after a step.
SetCluster(c, cl) ==
    /\ peermap' = [peermap EXCEPT ![c] = cl.peermap]
    /\ peertimers' = [peertimers EXCEPT ![c] = cl.peertimers]
    /\ untracked' = [untracked EXCEPT ![c] = cl.untracked]
    /\ peer_left' = [peer_left EXCEPT ![c] = cl.peer_left]

SrvInit ==
    /\ peermap = [c \in KnownClusters |-> <<>>]
    /\ peertimers = [c \in KnownClusters |-> <<>>]
    /\ untracked = [c \in KnownClusters |-> <<>>]
    /\ peer_left = [c \in KnownClusters |-> FALSE]
    /\ watcher = [c \in KnownClusters |-> "wait"]
    /\ listening = TRUE
    /\ request = NoRequest
    /\ outbox = <<>>
    /\ idle = [p \in PeerIds |-> TIMEOUT_INTERVAL]
    /\ unpublished = [c \in KnownClusters |-> {}]

\* Listener._listen receives a request datagram and runs the handler on it:
\* ServerRequestHandler.handle up to the datagrams it sends.  An exception that
\* leaves handle (KeyError of clusters[cluster_id], AttributeError of a None
\* timer) is caught by _listen, which leaves its loop.
HandleRequest(p, a, c, t, s) ==
    LET req == [msg_type |-> t, seqnum |-> s, cluster_id |-> c,
                sender_id |-> p, addr |-> a]
        raises == \/ c \notin KnownClusters
                  \/ /\ p \in DOMAIN peermap[c]
                     /\ peertimers[c][p].st = "None"
        cl == IF p \in DOMAIN peermap[c]
              THEN reset_peertimer(ClusterOf(c), p)
              ELSE ClusterOf(c)
        done == IF t = "CLUSTER_JOIN_REQUEST"
                THEN handle_cluster_join_request(cl, req)
                ELSE handle_status_request(cl, req)
    IN /\ listening
       /\ request' = req
       /\ IF raises
          THEN /\ listening' = FALSE
               /\ outbox' = <<>>
               /\ UNCHANGED <<peermap, peertimers, untracked, peer_left, idle,
                              unpublished>>
          ELSE /\ Len(done.cluster.untracked) <= MaxUntracked
               /\ SetCluster(c, done.cluster)
               /\ outbox' = done.sent
               /\ idle' = [idle EXCEPT ![p] = 0]
               /\ unpublished' = IF t = "CLUSTER_JOIN_REQUEST"
                                 THEN [unpublished EXCEPT ![c] = @ \ {p}]
                                 ELSE unpublished
               /\ listening' = listening
       /\ UNCHANGED watcher
       /\ UNCHANGED notSrvVars

\* A Timer's callback runs peer_timeout(p) on cluster c, whose fields are cl.
RunPeerTimeout(c, p, cl) ==
    /\ SetCluster(c, peer_timeout(cl, p))
    /\ unpublished' = IF p \in DOMAIN peermap[c]
                      THEN [unpublished EXCEPT ![c] = @ \cup {p}]
                      ELSE unpublished
    /\ request' = NoRequest
    /\ outbox' = <<>>
    /\ UNCHANGED <<watcher, listening, idle>>
    /\ UNCHANGED notSrvVars

\* The Timer held in peertimers[p] fires.
TimerExpire(c, p) ==
    /\ p \in DOMAIN peertimers[c]
    /\ peertimers[c][p].st = "started"
    /\ peertimers[c][p].rem = 0
    /\ RunPeerTimeout(c, p, ClusterOf(c))

\* A Timer that peertimers no longer holds fires.
UntrackedExpire(c, i) ==
    /\ i \in 1..Len(untracked[c])
    /\ untracked[c][i].rem = 0
    /\ RunPeerTimeout(c, untracked[c][i].peer_id,
                      [ClusterOf(c) EXCEPT !.untracked = QueueRemove(@, i)])

\* A started Timer of cluster c is due.
Due(c) ==
    \/ \E p \in DOMAIN peertimers[c] :
           peertimers[c][p].st = "started" /\ peertimers[c][p].rem = 0
    \/ \E i \in 1..Len(untracked[c]) : untracked[c][i].rem = 0

Min(x, y) == IF x <= y THEN x ELSE y

\* TickLen seconds pass; no Timer runs past its interval.
Tick ==
    /\ \A c \in KnownClusters : ~Due(c)
    /\ peertimers' = [c \in KnownClusters |->
                        [p \in DOMAIN peertimers[c] |->
                            IF peertimers[c][p].st = "started"
                            THEN Timer(peertimers[c][p].rem - TickLen)
                            ELSE peertimers[c][p]]]
    /\ untracked' = [c \in KnownClusters |->
                        [i \in 1..Len(untracked[c]) |->
                            [untracked[c][i] EXCEPT !.rem = @ - TickLen]]]
    /\ idle' = [p \in PeerIds |-> Min(idle[p] + TickLen, TIMEOUT_INTERVAL)]
    /\ request' = NoRequest
    /\ outbox' = <<>>
    /\ UNCHANGED <<peermap, peer_left, watcher, listening, unpublished>>
    /\ UNCHANGED notSrvVars

\* Server._watch_cluster sees peer_left set and calls push_peerlist(cluster_id).
WatcherPush(c) ==
    /\ watcher[c] = "wait"
    /\ peer_left[c]
    /\ watcher' = [watcher EXCEPT ![c] = "pushed"]
    /\ outbox' = push_peerlist(c, peermap[c], {})
    /\ request' = NoRequest
    /\ unpublished' = [unpublished EXCEPT ![c] = {}]
    /\ UNCHANGED <<peermap, peertimers, untracked, peer_left, listening, idle>>
    /\ UNCHANGED notSrvVars

\* Server._watch_cluster, after push_peerlist returned: cluster.peer_left_ack().
WatcherAck(c) ==
    /\ watcher[c] = "pushed"
    /\ watcher' = [watcher EXCEPT ![c] = "wait"]
    /\ peer_left' = [peer_left EXCEPT ![c] = FALSE]
    /\ request' = NoRequest
    /\ outbox' = <<>>
    /\ UNCHANGED <<peermap, peertimers, untracked, listening, idle, unpublished>>
    /\ UNCHANGED notSrvVars

(***************************************************************************)
(* src/util/files.py and src/client/client.py: blocks and sync_files       *)
(***************************************************************************)

MAX_DATA_LENGTH == 1331          \* CTPMessage.MAX_DATA_LENGTH
BLOCK_HEADER_SIZE == 25
MAX_BLOCK_SIZE == MAX_DATA_LENGTH - BLOCK_HEADER_SIZE

\* ceil(x / y) for positive y.
ceil(x, y) == (x + y - 1) \div y

\* FileInfo.block_count.
block_count(size) == ceil(size, MAX_BLOCK_SIZE)

\* int.to_bytes(4, 'big').
to_bytes(n) ==
    <<(n \div 16777216) % 256, (n \div 65536) % 256, (n \div 256) % 256, n % 256>>

\* int.from_bytes(b, 'big').
RECURSIVE from_bytes(_)
from_bytes(b) ==
    IF b = <<>> THEN 0
    ELSE 256 * from_bytes(SubSeq(b, 1, Len(b) - 1)) + b[Len(b)]

CRLFCRLF == <<13, 10, 13, 10>>
SPACE == <<32>>

\* Block.pack: filehash, b' ', the 4 bytes of block_id, CRLF CRLF, data.
pack(filehash, block_id, data) ==
    filehash \o SPACE \o to_bytes(block_id) \o CRLFCRLF \o data

\* The value of Block.unpack for a packet that gives no block.
NoBlock == [none |-> TRUE]

\* Block.unpack: packet.split(b'\r\n\r\n', 1) cuts at the first CRLF CRLF of
\* the packet; a packet without one, or a filehash that is not 16 bytes long,
\* raises ValueError inside and gives None.  Block.downloaded is len(data) # 0.
unpack(packet) ==
    LET cuts == {i \in 1..(Len(packet) - 3) : SubSeq(packet, i, i + 3) = CRLFCRLF}
    IN IF cuts = {} THEN NoBlock
       ELSE LET i == CHOOSE k \in cuts : \A j \in cuts : k <= j
                header == SubSeq(packet, 1, i - 1)
                data == SubSeq(packet, i + 4, Len(packet))
                filehash == SubSeq(header, 1, Min(16, Len(header)))
            IN IF Len(filehash) # 16 THEN NoBlock
               ELSE [none |-> FALSE, filehash |-> filehash,
                     block_id |-> from_bytes(SubSeq(header, 18, Len(header))),
                     data |-> data, downloaded |-> data # <<>>]

\* The file f that is synced: its filehash (an MD5 digest) and the data of its
\* blocks on a peer that holds it.  One byte stands for the bytes of a block.
FileHash == <<65, 66, 67, 68, 69, 70, 71, 72, 73, 74, 75, 76, 77, 78, 79, 80>>
FileSizes == {4000, 4359429}
HolderData(block_id) == <<block_id % 256>>

\* The peers a peermap may name: "h" holds every block of f, "m" holds f's
\* descriptor only, "s" is down.
SyncPeers == {"h", "m", "s"}
Peermaps ==
    {<<"h">>, <<"m", "h">>, <<"h", "m">>, <<"s", "h">>, <<"m", "s", "h">>,
     <<"h", "s", "m">>, <<"s", "m">>, <<"s">>, <<>>}
CounterCycle == 6

\* blocks[block_id].data of the file f on peer q.
RemoteData(q, block_id) == IF q = "h" THEN HolderData(block_id) ELSE <<>>

\* PeerRequestHandler.handle_block_request on peer q, under handle's
\* try/except: the body of the response it sends.  A request that unpacks to
\* None raises AttributeError and is answered SERVER_ERROR with an empty body.
handle_block_request(q, packet) ==
    LET requested_block == unpack(packet)
    IN IF requested_block.none THEN <<>>
       ELSE IF requested_block.filehash # FileHash THEN <<>>
       ELSE IF requested_block.block_id \notin 0..(block_count(filesize) - 1)
            THEN <<>>
       ELSE IF RemoteData(q, requested_block.block_id) # <<>>
            THEN pack(FileHash, requested_block.block_id,
                      RemoteData(q, requested_block.block_id))
            ELSE <<>>

\* Mutant of get_peer: the first entry of the peermap, whatever the counter.
get_peerFirst(pm, n) == IF Len(pm) = 0 THEN 0 ELSE 1

\* Peer.get_peer: the index of the peermap entry for a request counter, or 0
\* when the peermap is empty (None).
get_peer(pm, n) == IF Len(pm) = 0 THEN 0 ELSE (n % Len(pm)) + 1

\* Peer.handle_down_peer: peermap.pop(dest_peer_id, None).
handle_down_peer(pm, i) == QueueRemove(pm, i)

\* blocks[block_id].data of the local File f.  The blocks are kept as their
\* differences from a pass that downloads the holder's copy in order: a block
\* that `blocks` does not list holds the holder's data when sync_files is past
\* it, and is missing (b'') otherwise.
block_data(block_id) ==
    IF block_id \in DOMAIN blocks THEN blocks[block_id]
    ELSE IF block_id < block_idx THEN HolderData(block_id)
    ELSE <<>>

\* `blocks` once sync_files has left the block at block_idx with this data.
LeaveBlock(data) ==
    IF data = HolderData(block_idx) THEN blocks
    ELSE (block_idx :> data) @@ blocks

SyncInit ==
    /\ filesize = 0
    /\ local_peermap = <<>>
    /\ blocks = <<>>
    /\ block_idx = 0
    /\ counter = 0
    /\ sync_pc = "idle"
    /\ disk = [file |-> FALSE, crtemp |-> FALSE]

\* sync_files is called on a peer whose filemap holds f with its descriptor
\* only (add_fileinfo: every block missing, f.crtemp written) and whose
\* peermap is pm.
SyncBegin(size, pm) ==
    /\ sync_pc = "idle"
    /\ filesize' = size
    /\ local_peermap' = pm
    /\ blocks' = <<>>
    /\ block_idx' = 0
    /\ counter' = 0
    /\ sync_pc' = "sync"
    /\ disk' = [file |-> FALSE, crtemp |-> TRUE]
    /\ UNCHANGED notSyncVars

\* One pass of sync_files' `while not block.downloaded` for the block at
\* block_idx: get_peer, send_request (with its retries), the peer's handler and
\* the handling of the response.  The counter is kept modulo CounterCycle, a
\* multiple of every peermap length.
SyncRequest ==
    /\ sync_pc = "sync"
    /\ block_idx < block_count(filesize)
    /\ LET i == get_peer(local_peermap, counter)
       IN IF i = 0
          THEN \* no peer: the while loop is left, the block stays missing
               /\ blocks' = LeaveBlock(<<>>)
               /\ block_idx' = block_idx + 1
               /\ UNCHANGED <<local_peermap, counter>>
          ELSE /\ counter' = (counter + 1) % CounterCycle
               /\ IF local_peermap[i] = "s"
                  THEN \* no response after the retries: response is None
                       /\ local_peermap' = handle_down_peer(local_peermap, i)
                       /\ UNCHANGED <<blocks, block_idx>>
                  ELSE LET response_block ==
                               unpack(handle_block_request(local_peermap[i],
                                          pack(FileHash, block_idx, <<>>)))
                       IN IF ~response_block.none /\ response_block.downloaded
                          THEN /\ blocks' = LeaveBlock(response_block.data)
                               /\ block_idx' = block_idx + 1
                               /\ UNCHANGED local_peermap
                          ELSE UNCHANGED <<local_peermap, blocks, block_idx>>
    /\ UNCHANGED <<filesize, sync_pc, disk>>
    /\ UNCHANGED notSyncVars

\* File.downloaded: every block of the file is downloaded.
downloaded == \A i \in 0..(block_count(filesize) - 1) : block_data(i) # <<>>

\* Peer.store_file at the end of the file's pass: delete_local_copy, then
\* write_file if the file is downloaded, write_temp_file otherwise.
SyncStore ==
    /\ sync_pc = "sync"
    /\ block_idx = block_count(filesize)
    /\ disk' = IF downloaded
               THEN [file |-> TRUE, crtemp |-> FALSE]
               ELSE [file |-> FALSE, crtemp |-> TRUE]
    /\ sync_pc' = "done"
    /\ UNCHANGED <<filesize, local_peermap, blocks, block_idx, counter>>
    /\ UNCHANGED notSyncVars

(***************************************************************************)
(* src/util/files.py: FileInfo and its CRINFO bytes                        *)
(***************************************************************************)

CRLF == <<13, 10>>
CRINFO_SIG == <<67, 82, 73, 78, 70, 79>>      \* 'CRINFO'

\* The first index at which sep occurs in data, 0 if it does not.
find(data, sep) ==
    LET at == {i \in 1..(Len(data) - Len(sep) + 1) :
                  SubSeq(data, i, i + Len(sep) - 1) = sep}
    IN IF at = {} THEN 0 ELSE CHOOSE i \in at : \A j \in at : i <= j

\* str(n) of an int n >= 0.
RECURSIVE str_int(_)
str_int(n) == IF n < 10 THEN <<48 + n>> ELSE str_int(n \div 10) \o <<48 + (n % 10)>>

\* str(t) of a float t that is a whole number of seconds.
str_float(t) == str_int(t) \o <<46, 48>>

IsDigits(s) == Len(s) > 0 /\ \A i \in 1..Len(s) : s[i] \in 48..57

\* int(s) of a string of decimal digits.
RECURSIVE int(_)
int(s) ==
    IF Len(s) = 0 THEN 0 ELSE 10 * int(SubSeq(s, 1, Len(s) - 1)) + (s[Len(s)] - 48)

\* float(s) is defined on digits '.' digits (here: the strings str_float
\* gives, and the plain digit strings).
IsFloat(s) ==
    \/ IsDigits(s)
    \/ \E i \in 2..(Len(s) - 1) :
          /\ s[i] = 46
          /\ IsDigits(SubSeq(s, 1, i - 1))
          /\ \A j \in (i + 1)..Len(s) : s[j] = 48
float(s) == IF IsDigits(s) THEN int(s) ELSE int(SubSeq(s, 1, find(s, <<46>>) - 1))

\* str.split(' ').
split_space(data) ==
    LET at == sorted({i \in 1..Len(data) : data[i] = 32})
    IN [k \in 1..(Len(at) + 1) |->
          SubSeq(data,
                 IF k = 1 THEN 1 ELSE at[k - 1] + 1,
                 IF k = Len(at) + 1 THEN Len(data) ELSE at[k] - 1)]

\* split('\r\n'): the pieces between the CRLFs of data.
split_lines(data) ==
    LET cuts == {i \in 1..(Len(data) - 1) : data[i] = 13 /\ data[i + 1] = 10}
        at == sorted(cuts)
    IN [k \in 1..(Len(at) + 1) |->
          SubSeq(data,
                 IF k = 1 THEN 1 ELSE at[k - 1] + 2,
                 IF k = Len(at) + 1 THEN Len(data) ELSE at[k] - 1)]

FileInfo(hash, name, size, ts) ==
    [filehash |-> hash, filename |-> name, filesize |-> size, timestamp |-> ts]

ValueError == [error |-> "ValueError"]

\* FileInfo.write: the bytes of the CRINFO file.
write(fileinfo) ==
    CRINFO_SIG \o SPACE \o str_int(fileinfo.filesize) \o SPACE
        \o str_float(fileinfo.timestamp) \o CRLF \o fileinfo.filehash

\* FileInfo._from_bytes.
FileInfo_from_bytes(filename, data) ==
    LET data_split == split_lines(data)
        l1_split == split_space(data_split[1])
    IN IF Len(data_split) # 2 THEN ValueError
       ELSE IF Len(l1_split) # 3 THEN ValueError
       ELSE IF ~IsDigits(l1_split[2]) \/ ~IsFloat(l1_split[3]) THEN ValueError
       ELSE IF l1_split[1] # CRINFO_SIG THEN ValueError
       ELSE FileInfo(data_split[2], filename, int(l1_split[2]), float(l1_split[3]))

\* FileInfo.__eq__: both filehashes match.
FileInfo_eq(a, b) == a.filehash = b.filehash

\* A stand-in for hashlib.md5(data).digest(): 16 bytes computed from the
\* length of data and a position-weighted sum of its bytes.
RECURSIVE weighted_sum(_, _, _)
weighted_sum(data, lo, hi) ==
    IF lo > hi THEN 0
    ELSE IF lo = hi THEN (lo * data[lo]) % 65536
    ELSE LET mid == (lo + hi) \div 2
         IN (weighted_sum(data, lo, mid) + weighted_sum(data, mid + 1, hi)) % 65536
md5(data) ==
    LET n == Len(data) % 65536
        w == weighted_sum(data, 1, Len(data))
        hex(x, k) == 65 + ((x \div k) % 16)
    IN <<hex(n, 4096), hex(n, 256), hex(n, 16), hex(n, 1),
         hex(w, 4096), hex(w, 256), hex(w, 16), hex(w, 1),
         77, 68, 53, 77, 68, 53, 77, 68>>

\* The time of day (time.time()), in whole seconds.
Now == 7

(***************************************************************************)
(* src/client/client.py and src/control-server/server.py: sync_manifest    *)
(***************************************************************************)

FILENAME_MAX_LENGTH == 255
MANIFEST_HEADER == <<67, 82, 77, 65, 78, 73, 70, 69, 83, 84>>      \* b'CRMANIFEST'

FILE_MANIFEST_FILENAME == <<46, 99, 114, 109, 97, 110, 105, 102, 101, 115, 116>>      \* '.crmanifest'

\* Filenames, as their ASCII bytes: four of one byte and names of the
\* maximum length.
ShortNames == {<<97>>, <<98>>, <<99>>, <<100>>}
LongName(ch) == [i \in 1..FILENAME_MAX_LENGTH |-> ch]
LongNames(k) == {LongName(64 + i) : i \in 1..k}

\* The key sets of the server's fileinfo_map.
FileinfoMaps ==
    (SUBSET ShortNames)
        \cup {LongNames(1), LongNames(5), LongNames(5) \cup ShortNames,
              LongNames(6), LongNames(11)}

\* a < b for two str values (lexicographic by code point).
StrLess(a, b) ==
    \E i \in 1..(Min(Len(a), Len(b)) + 1) :
        /\ \A j \in 1..(i - 1) : a[j] = b[j]
        /\ \/ i > Len(a) /\ i <= Len(b)
           \/ i <= Len(a) /\ i <= Len(b) /\ a[i] < b[i]

\* sorted() of a set of str.
RECURSIVE sorted_names(_)
sorted_names(S) ==
    IF S = {} THEN <<>>
    ELSE LET m == CHOOSE x \in S : \A y \in S \ {x} : StrLess(x, y)
         IN <<m>> \o sorted_names(S \ {m})

\* '\r\n'.join(names).
RECURSIVE join(_)
join(names) ==
    IF names = <<>> THEN <<>>
    ELSE IF Len(names) = 1 THEN names[1]
    ELSE names[1] \o CRLF \o join(Tail(names))

\* Server._update_manifest: the bytes of the manifest file.
manifest_bytes(names) ==
    MANIFEST_HEADER \o CRLFCRLF \o join(sorted_names(names))

\* File.from_file: block i of a file is its i-th read of MAX_BLOCK_SIZE bytes.
file_block(data, i) ==
    SubSeq(data, i * MAX_BLOCK_SIZE + 1, Min((i + 1) * MAX_BLOCK_SIZE, Len(data)))

\* SharedDirectory.add_file of the manifest (FileInfo.from_file): the FileInfo
\* of the manifest file whose bytes are data.
manifest_fileinfo(data) == FileInfo(md5(data), FILE_MANIFEST_FILENAME, Len(data), Now)

\* ServerRequestHandler.handle_block_request: the response to a BLOCK_REQUEST,
\* served from the stored manifest file.  A packet that does not unpack
\* raises AttributeError, which handle answers with SERVER_ERROR.
server_handle_block_request(packet) ==
    LET requested_block == unpack(packet)
        data == manifest_file
    IN IF requested_block.none
       THEN [msg_type |-> "SERVER_ERROR", data |-> <<>>]
       ELSE IF requested_block.filehash # manifest_fileinfo(data).filehash
       THEN [msg_type |-> "INVALID_REQ",
             data |-> <<115, 101, 114, 118, 101, 114, 32, 100, 111, 101, 115, 32,
                 110, 111, 116, 32, 115, 101, 114, 118, 101, 32, 102, 105, 108, 101,
                 115, 32, 111, 116, 104, 101, 114, 32, 116, 104, 97, 110, 32, 116, 104,
                 101, 32, 109, 97, 110, 105, 102, 101, 115, 116>>]
       ELSE IF requested_block.block_id \in 0..(block_count(Len(data)) - 1)
       THEN [msg_type |-> "BLOCK_RESPONSE",
             data |-> pack(manifest_fileinfo(data).filehash,
                           requested_block.block_id,
                           file_block(data, requested_block.block_id))]
       ELSE [msg_type |-> "INVALID_REQ",
             data |-> <<114, 101, 113, 117, 101, 115, 116, 101, 100, 32, 98, 108,
                 111, 99, 107, 32, 100, 111, 101, 115, 32, 110, 111, 116, 32, 101, 120,
                 105, 115, 116>>]

\* len(filename.strip()) != 0.
IsBlank(name) == \A i \in 1..Len(name) : name[i] \in {32, 9, 10, 11, 12, 13}

\* Peer._parse_manifest_file on the bytes of the stored manifest: what follows
\* the first CRLF CRLF, split into lines, without the blank ones.
parse_manifest(data) ==
    LET cuts == {i \in 1..(Len(data) - 3) : SubSeq(data, i, i + 3) = CRLFCRLF}
        i == CHOOSE k \in cuts : \A j \in cuts : k <= j
        lines == split_lines(SubSeq(data, i + 4, Len(data)))
    IN SelectSeq(lines, LAMBDA name : ~IsBlank(name))

\* b''.join of the blocks' data.
RECURSIVE join_blocks(_, _)
join_blocks(bs, n) ==
    IF n = 0 THEN <<>> ELSE join_blocks(bs, n - 1) \o bs[n - 1]

\* The state of the server's files, as handlers take and return it.
Files(fm, dir, mf, resp) ==
    [fileinfo_map |-> fm, crinfo_dir |-> dir, manifest_file |-> mf, response |-> resp]

NoFileResponse == [msg_type |-> "None", data |-> <<>>]

\* Mutant of add_fileinfo: the manifest is not rewritten.
add_fileinfoStaleManifest(fs, fileinfo) ==
    Files((fileinfo.filename :> fileinfo) @@ fs.fileinfo_map,
          (fileinfo.filename :> write(fileinfo)) @@ fs.crinfo_dir,
          fs.manifest_file,
          fs.response)

\* Server.add_fileinfo: fileinfo_map[filename] = fileinfo, fileinfo.write(),
\* _update_manifest().
add_fileinfo(fs, fileinfo) ==
    LET fm == (fileinfo.filename :> fileinfo) @@ fs.fileinfo_map
    IN Files(fm,
             (fileinfo.filename :> write(fileinfo)) @@ fs.crinfo_dir,
             manifest_bytes(DOMAIN fm),
             fs.response)

\* The descriptor a server start finds stored for a filename.
StoredInfo(name) == FileInfo([i \in 1..16 |-> name[1]], name, Len(name), 1)

\* Server.__init__ / _parse_manifest: the server's files after a start that
\* finds the manifest of `names` and their descriptors stored.
stored(names) ==
    Files([n \in names |-> StoredInfo(n)],
          [n \in names |-> write(StoredInfo(n))],
          manifest_bytes(names),
          NoFileResponse)

\* ServerRequestHandler.handle_manifest_request: get_manifest_crinfo rewrites
\* the manifest; the response is the bytes of the manifest's CRINFO.
handle_manifest_request(fs) ==
    LET data == manifest_bytes(DOMAIN fs.fileinfo_map)
    IN Files(fs.fileinfo_map, fs.crinfo_dir, data,
             [msg_type |-> "MANIFEST_RESPONSE", data |-> write(manifest_fileinfo(data))])

\* ServerRequestHandler.handle_new_crinfo_notif on a body: split at the first
\* CRLF CRLF into filename and CRINFO bytes (ValueError if there is none),
\* _from_bytes, then `fileinfo not in fileinfo_map.values()`, which compares
\* by FileInfo.__eq__.
handle_new_crinfo_notif(fs, body) ==
    LET cut == find(body, CRLFCRLF)
        filename == SubSeq(body, 1, cut - 1)
        fileinfo == FileInfo_from_bytes(filename, SubSeq(body, cut + 4, Len(body)))
        invalid == [msg_type |-> "INVALID_REQ",
                    data |-> <<101, 114, 114, 111, 114, 58, 32, 99, 111, 114, 114, 117,
                        112, 116, 101, 100, 32, 67, 82, 73, 78, 70, 79, 32, 102, 105, 108,
                        101, 32, 111, 114, 32, 102, 105, 108, 101, 110, 97, 109, 101>>]
        ack(data) == [msg_type |-> "NEW_CRINFO_NOTIF_ACK", data |-> data]
    IN IF cut = 0 \/ fileinfo = ValueError
       THEN [fs EXCEPT !.response = invalid]
       ELSE IF \E n \in DOMAIN fs.fileinfo_map : FileInfo_eq(fileinfo, fs.fileinfo_map[n])
       THEN [fs EXCEPT !.response = ack(<<101, 114, 114, 111, 114, 58, 32,
           101, 120, 105, 115, 116, 115>>)]
       ELSE [add_fileinfo(fs, fileinfo) EXCEPT !.response = ack(<<115, 117,
           99, 99, 101, 115, 115>>)]

\* The filenames, filehashes and bodies of the NEW_CRINFO_NOTIFs: two plain
\* names, a name with a CRLF in it and the empty name; two digests and one
\* that has the bytes CR LF in it; and two bodies that are not well-formed.
NotifNames == {<<97>>, <<98>>, <<97, 13, 10, 98>>, <<>>}
HashX == [i \in 1..16 |-> 120]
HashY == [i \in 1..16 |-> 121]
HashCRLF == [i \in 1..16 |-> IF i = 7 THEN 13 ELSE IF i = 8 THEN 10 ELSE 122]
NotifHashes == {HashX, HashY, HashCRLF}
notif_body(name, hash) == name \o CRLFCRLF \o write(FileInfo(hash, name, 5, Now))
NotifBodies ==
    {notif_body(name, hash) : name \in NotifNames, hash \in NotifHashes}
        \cup {<<97>>, <<97>> \o CRLFCRLF \o <<67, 82>>}

\* The filenames a server start finds stored.
StartNames == {LongNames(5) \cup {<<99>>, <<100>>}}

\* The BLOCK_REQUEST packets: for the hash of the manifest as it is, of the
\* empty manifest and of another file, and a packet that is no block.
BlockIds == {0, 1, 2, 3338}
BlockHashes ==
    {manifest_fileinfo(manifest_file).filehash,
     manifest_fileinfo(manifest_bytes({})).filehash, HashX}
BlockPackets ==
    {pack(hash, id, <<>>) : hash \in BlockHashes, id \in BlockIds} \cup {<<1, 2, 3>>}

FilesInit ==
    /\ fileinfo_map = <<>>
    /\ crinfo_dir = <<>>
    /\ manifest_file = manifest_bytes({})
    /\ file_response = NoFileResponse

ThisFiles == Files(fileinfo_map, crinfo_dir, manifest_file, file_response)

SetFiles(fs) ==
    /\ fileinfo_map' = fs.fileinfo_map
    /\ crinfo_dir' = fs.crinfo_dir
    /\ manifest_file' = fs.manifest_file
    /\ file_response' = fs.response

\* The server starts on a shared directory that holds `names`.
ServerStart(names) ==
    /\ fileinfo_map = <<>> /\ file_response = NoFileResponse
    /\ names # {}
    /\ SetFiles(stored(names))
    /\ UNCHANGED notFilesVars

\* The server handles a NEW_CRINFO_NOTIF.
HandleNewCrinfoNotif(body) ==
    /\ SetFiles(handle_new_crinfo_notif(ThisFiles, body))
    /\ UNCHANGED notFilesVars

\* The server handles a MANIFEST_REQUEST.
HandleManifestRequest ==
    /\ SetFiles(handle_manifest_request(ThisFiles))
    /\ UNCHANGED notFilesVars

\* The server handles a BLOCK_REQUEST.
HandleBlockRequest(packet) ==
    /\ file_response' = server_handle_block_request(packet)
    /\ UNCHANGED <<fileinfo_map, crinfo_dir, manifest_file>>
    /\ UNCHANGED notFilesVars

ManifestInit ==
    /\ manifest_info = None
    /\ manifest_blocks = <<>>
    /\ manifest_idx = 0
    /\ manifest_pc = "idle"
    /\ manifest_disk = [file |-> FALSE, data |-> <<>>, crtemp |-> FALSE]
    /\ manifest_filelist = <<>>

\* sync_manifest up to the block loop of _update_manifest_file, against a
\* server started with the filenames `names`: MANIFEST_REQUEST (no answer
\* after the retries raises ServerConnectionError), add_fileinfo of the
\* returned CRINFO (a File whose block_count blocks are missing, written as
\* .crtemp), then delete_local_copy.
SyncManifestBegin(names, answered) ==
    /\ manifest_pc = "idle"
    /\ fileinfo_map = <<>> /\ file_response = NoFileResponse
    /\ LET srv == handle_manifest_request(stored(names))
           info == FileInfo_from_bytes(FILE_MANIFEST_FILENAME, srv.response.data)
       IN /\ fileinfo_map' = srv.fileinfo_map
          /\ crinfo_dir' = srv.crinfo_dir
          /\ manifest_file' = srv.manifest_file
          /\ file_response' = srv.response
          /\ IF ~answered
             THEN /\ manifest_pc' = "ServerConnectionError"
                  /\ UNCHANGED <<manifest_info, manifest_blocks>>
             ELSE IF info = ValueError
             THEN /\ manifest_pc' = "ValueError"
                  /\ UNCHANGED <<manifest_info, manifest_blocks>>
             ELSE /\ manifest_info' = info
                  /\ manifest_blocks' =
                        [i \in 0..(block_count(info.filesize) - 1) |-> <<>>]
                  /\ manifest_pc' = "fetch"
    /\ UNCHANGED <<manifest_idx, manifest_disk, manifest_filelist>>
    /\ UNCHANGED notManifestVars

\* One pass of `for block in manifest_file.blocks`: BLOCK_REQUEST to the
\* server; no answer writes the .crtemp and raises; a HIT stores the data and
\* leaves the loop (`break`); a MISS goes on to the next block.
FetchManifestBlock(answered) ==
    /\ manifest_pc = "fetch"
    /\ manifest_idx \in DOMAIN manifest_blocks
    /\ IF ~answered
       THEN /\ manifest_disk' = [manifest_disk EXCEPT !.crtemp = TRUE]
            /\ manifest_pc' = "ServerConnectionError"
            /\ UNCHANGED <<manifest_blocks, manifest_idx>>
       ELSE LET block_response == server_handle_block_request(
                                      pack(manifest_info.filehash, manifest_idx, <<>>))
                response_block == unpack(block_response.data)
            IN IF ~response_block.none /\ response_block.downloaded
               THEN /\ manifest_blocks' = [manifest_blocks EXCEPT
                                             ![manifest_idx] = response_block.data]
                    /\ manifest_pc' = "fetched"
                    /\ UNCHANGED <<manifest_idx, manifest_disk>>
               ELSE /\ manifest_idx' = manifest_idx + 1
                    /\ UNCHANGED <<manifest_blocks, manifest_pc, manifest_disk>>
    /\ UNCHANGED <<manifest_info, manifest_filelist>>
    /\ UNCHANGED <<filesVars, notManifestVars>>

\* File.downloaded of the manifest file.
manifest_downloaded == \A i \in DOMAIN manifest_blocks : manifest_blocks[i] # <<>>

\* After the block loop: write_file if the file is downloaded, then
\* _parse_manifest_file, which raises RuntimeError if it is not.
ParseManifest ==
    /\ \/ manifest_pc = "fetched"
       \/ manifest_pc = "fetch" /\ manifest_idx \notin DOMAIN manifest_blocks
    /\ IF manifest_downloaded
       THEN LET data == join_blocks(manifest_blocks,
                                    Cardinality(DOMAIN manifest_blocks))
            IN /\ manifest_disk' = [manifest_disk EXCEPT !.file = TRUE, !.data = data]
               /\ manifest_filelist' = parse_manifest(data)
               /\ manifest_pc' = "returned"
       ELSE /\ manifest_pc' = "RuntimeError"
            /\ UNCHANGED <<manifest_disk, manifest_filelist>>
    /\ UNCHANGED <<manifest_info, manifest_blocks, manifest_idx>>
    /\ UNCHANGED <<filesVars, notManifestVars>>

(***************************************************************************)
(* src/client/client.py: handle_peerlist_push and _parse_peerlist          *)
(***************************************************************************)

\* The peer ids of a cluster and the peer that handles the pushes, which
\* listens on the address "a1".
PushIds == 1..4
SelfId == 1
SelfAddr == "a1"

\* The (host, port) of an address.
AddressOf(a) ==
    IF a = "a1" THEN [ip |-> <<49, 48, 46, 48, 46, 48, 46, 49>>, port |-> 6001]
    ELSE [ip |-> <<49, 48, 46, 48, 46, 48, 46, 50>>, port |-> 6002]

PeerInfo(peer_id, address) == [peer_id |-> peer_id, address |-> address]

\* Cluster.generate_peerlist, the string: f"{peer_id} {addr[0]} {addr[1]}",
\* joined by CRLF.
peerlist_str(pm) ==
    LET list == generate_peerlist(pm)
    IN join([i \in 1..Len(list) |->
                str_int(list[i].peer_id) \o SPACE \o AddressOf(list[i].address).ip
                    \o SPACE \o str_int(AddressOf(list[i].address).port)])

\* self.peermap[peerinfo.peer_id] = peerinfo on a dict kept in insertion order.
RECURSIVE dict_put(_, _)
dict_put(pm, peerinfo) ==
    IF pm = <<>> THEN <<peerinfo>>
    ELSE IF pm[1].peer_id = peerinfo.peer_id THEN <<peerinfo>> \o Tail(pm)
    ELSE <<pm[1]>> \o dict_put(Tail(pm), peerinfo)

\* The first loop of Peer._parse_peerlist: the PeerInfos of the lines;
\* ValueError for a line that is not "peer_id host port".
parse_lines(peerlist) ==
    LET lines == split_lines(peerlist)
        fields == [i \in 1..Len(lines) |-> split_space(lines[i])]
    IN IF \E i \in 1..Len(lines) : Len(fields[i]) # 3 \/ ~IsDigits(fields[i][3])
       THEN [error |-> "ValueError", list |-> <<>>]
       ELSE [error |-> "",
             list |-> [i \in 1..Len(lines) |->
                         PeerInfo(fields[i][1],
                                  [ip |-> fields[i][2], port |-> int(fields[i][3])])]]

\* The second loop of Peer._parse_peerlist: the peermap is emptied and gets
\* the PeerInfos that have neither the peer's peer_id nor its address.
RECURSIVE overwrite_peermap(_, _)
overwrite_peermap(pm, list) ==
    IF list = <<>> THEN pm
    ELSE overwrite_peermap(
             IF list[1].peer_id # str_int(SelfId) /\ list[1].address # AddressOf(SelfAddr)
             THEN dict_put(pm, list[1]) ELSE pm,
             Tail(list))

\* Mutant of handle_peerlist_push: the peermap is not emptied first.
handle_peerlist_pushMerge(pm, peerlist) ==
    LET parsed == parse_lines(peerlist)
    IN IF parsed.error # ""
       THEN [peermap |-> pm, sent |-> [msg_type |-> "SERVER_ERROR", data |-> <<>>]]
       ELSE [peermap |-> overwrite_peermap(pm, parsed.list), sent |-> None]

\* PeerRequestHandler.handle_peerlist_push under handle's try/except: the
\* peermap afterwards and the response sent.  A ValueError of _parse_peerlist
\* leaves the peermap and is answered SERVER_ERROR with an empty body.
handle_peerlist_push(pm, peerlist) ==
    LET parsed == parse_lines(peerlist)
    IN IF parsed.error # ""
       THEN [peermap |-> pm, sent |-> [msg_type |-> "SERVER_ERROR", data |-> <<>>]]
       ELSE [peermap |-> overwrite_peermap(<<>>, parsed.list), sent |-> None]

\* The peermaps of the server's cluster, and the bodies a peer is pushed: the
\* peer lists of those peermaps, and one that is no peer list.
ServerPeermaps == UNION {[S -> Addrs] : S \in SUBSET PushIds}
PushBodies == {peerlist_str(pm) : pm \in ServerPeermaps} \cup {<<120>>}

PushInit ==
    /\ peer_peermap = <<>>
    /\ push_body = None
    /\ push_sent = None

\* The peer's handler handles a PEERLIST_PUSH.
HandlePeerlistPush(peerlist) ==
    /\ LET done == handle_peerlist_push(peer_peermap, peerlist)
       IN /\ peer_peermap' = done.peermap
          /\ push_sent' = done.sent
    /\ push_body' = [data |-> peerlist]
    /\ UNCHANGED notPushVars

\* A request to the i-th peer of the peermap went unanswered:
\* handle_down_peer pops the peer.
PeerDown(i) ==
    /\ i \in 1..Len(peer_peermap)
    /\ peer_peermap' = handle_down_peer(peer_peermap, i)
    /\ UNCHANGED <<push_body, push_sent>>
    /\ UNCHANGED notPushVars

(***************************************************************************)
(* src/ctp/peers.py: send_request by message type, and seqnum + 1          *)
(***************************************************************************)

\* The message types of src/ctp/ctp.py.
CTPMessageTypeBase ==
    ("STATUS_REQUEST" :> 0) @@ ("STATUS_RESPONSE" :> 1) @@
    ("NOTIFICATION" :> 2) @@ ("NOTIFICATION_ACK" :> 3) @@
    ("BLOCK_REQUEST" :> 4) @@ ("BLOCK_RESPONSE" :> 5)

\* The message types peers.py, client.py and server.py use beyond those.
CTPMessageTypeLater ==
    ("CLUSTER_JOIN_REQUEST" :> 6) @@ ("CLUSTER_JOIN_RESPONSE" :> 7) @@
    ("MANIFEST_REQUEST" :> 8) @@ ("MANIFEST_RESPONSE" :> 9) @@
    ("CRINFO_REQUEST" :> 10) @@ ("CRINFO_RESPONSE" :> 11) @@
    ("NEW_CRINFO_NOTIF" :> 12) @@ ("NEW_CRINFO_NOTIF_ACK" :> 13) @@
    ("PEERLIST_PUSH" :> 16) @@ ("UNEXPECTED_REQ" :> 249) @@
    ("INVALID_REQ" :> 253) @@ ("NO_OP" :> 254) @@ ("SERVER_ERROR" :> 255)

CTPMessageType == CTPMessageTypeBase @@ CTPMessageTypeLater

\* isinstance(msg_type, CTPMessageType)
isinstance(msg_type) == msg_type \in DOMAIN CTPMessageType

\* Mutant of is_request: every message type counts as a request.
is_requestAlways(msg_type) == TRUE

\* CTPMessageType.is_request: the value is even.
is_request(msg_type) == (CTPMessageType[msg_type] % 2) = 0

\* Mutant of expects_no_response: only NO_OP returns without waiting.
expects_no_responseNoOpOnly(msg_type) == msg_type = "NO_OP"

\* `message.msg_type == NO_OP or message.msg_type == PEERLIST_PUSH`
expects_no_response(msg_type) ==
    msg_type = "NO_OP" \/ msg_type = "PEERLIST_PUSH"

\* Values given as msg_type: the members of the enum, a str and an int.
MsgTypeArgs == DOMAIN CTPMessageType \cup {"str 'BLOCK_REQUEST'", "int 4"}

\* Python's int is unbounded: a non-negative int is the sequence of its
\* base-256 digits, most significant first, without leading zeros; 0 is <<>>.
Byte == 256

RECURSIVE plus_one(_)
plus_one(n) ==
    IF n = <<>> THEN <<1>>
    ELSE IF n[Len(n)] < Byte - 1
         THEN [n EXCEPT ![Len(n)] = @ + 1]
         ELSE plus_one(SubSeq(n, 1, Len(n) - 1)) \o <<0>>

RECURSIVE lex_leq(_, _)
lex_leq(a, b) ==
    IF a = <<>> THEN TRUE
    ELSE IF a[1] # b[1] THEN a[1] < b[1]
    ELSE lex_leq(Tail(a), Tail(b))

\* a <= b
int_leq(a, b) ==
    IF Len(a) # Len(b) THEN Len(a) < Len(b) ELSE lex_leq(a, b)

\* MAX_INT_VALUE = (2**32) - 1
MAX_INT_VALUE == <<255, 255, 255, 255>>

\* Values of randint(0, MAX_INT_VALUE): 0, 1, 255, 256, 2**32 - 2, 2**32 - 1.
SeqNumValues ==
    {<<>>, <<1>>, <<255>>, <<1, 0>>, <<255, 255, 255, 254>>, MAX_INT_VALUE}

\* The 4-byte big-endian sequence number field of the header: a value that
\* needs more than 4 bytes cannot be packed.
SEQNUM_SIZE == 4

pack_seqnum(n) ==
    IF Len(n) <= SEQNUM_SIZE
    THEN [error |-> FALSE,
          bytes |-> [k \in 1..SEQNUM_SIZE |->
                        IF k <= SEQNUM_SIZE - Len(n) THEN 0
                        ELSE n[k - (SEQNUM_SIZE - Len(n))]]]
    ELSE [error |-> TRUE, bytes |-> <<>>]

RECURSIVE unpack_seqnum(_)
unpack_seqnum(bytes) ==
    IF bytes = <<>> THEN <<>>
    ELSE IF bytes[1] = 0 THEN unpack_seqnum(Tail(bytes))
    ELSE bytes

\* CTPMessage.unpack of a packet, as Listener._listen does on receipt.
unpack_message(packet) ==
    [msg_type |-> packet.msg_type, seqnum |-> unpack_seqnum(packet.seqnum)]

\* RequestHandler.send_response: the response carries request.seqnum + 1;
\* the result is the packet passed to sock.sendto, or the failure to pack it.
send_response(req, msg_type) ==
    LET resp_seqnum == plus_one(req.seqnum)
        p == pack_seqnum(resp_seqnum)
    IN [error |-> p.error, msg_type |-> msg_type, seqnum |-> p.bytes]

Timeouts == {1, 5}               \* the timeout argument, in seconds
HandlerResponseTypes == {"STATUS_RESPONSE", "SERVER_ERROR"}

CTPConnectionError == [error |-> "CTPConnectionError"]

RequestInit ==
    /\ msg_type_arg = "STATUS_REQUEST"
    /\ req_seqnum = <<>>
    /\ req_retries = 0
    /\ req_timeout = 1
    /\ req_attempts = 0
    /\ req_pc = "idle"
    /\ datagrams = <<>>
    /\ reads = <<>>
    /\ req_result = None
    /\ resp_queue = <<>>
    /\ handled = 0
    /\ handler_raised = FALSE

\* send_request up to its retry loop: msg_type is validated, then the seqnum
\* is drawn and attempts = 0.
SendRequest(t, s, r, b) ==
    /\ req_pc = "idle"
    /\ int_leq(s, MAX_INT_VALUE)
    /\ msg_type_arg' = t
    /\ req_retries' = r
    /\ req_timeout' = b
    /\ IF ~isinstance(t) \/ ~is_request(t)
       THEN /\ req_pc' = "raised"
            /\ req_result' = ValueError
            /\ UNCHANGED <<req_seqnum, req_attempts>>
       ELSE /\ req_pc' = "loop"
            /\ req_seqnum' = s
            /\ req_attempts' = 0
            /\ UNCHANGED req_result
    /\ UNCHANGED <<datagrams, reads, resp_queue, handled, handler_raised>>
    /\ UNCHANGED notRequestVars

\* One iteration of `while attempts <= retries`: the message is sent; for
\* NO_OP and PEERLIST_PUSH send_request returns None, otherwise get_response
\* is called with seqnum + 1 and scans the queue once before it waits.
SendMessage ==
    /\ req_pc = "loop"
    /\ req_attempts < MaxAttempts(req_retries)
    /\ req_attempts' = req_attempts + 1
    /\ datagrams' = Append(datagrams, [msg_type |-> msg_type_arg,
                                       seqnum |-> pack_seqnum(req_seqnum).bytes])
    /\ IF expects_no_response(msg_type_arg)
       THEN /\ req_pc' = "returned"
            /\ req_result' = None
            /\ UNCHANGED <<reads, resp_queue>>
       ELSE /\ reads' = Append(reads, [expected_seqnum |-> plus_one(req_seqnum),
                                       block_time |-> req_timeout])
            /\ LET r == ScanResponses(resp_queue, plus_one(req_seqnum))
               IN /\ resp_queue' = r.queue
                  /\ IF r.found
                     THEN req_pc' = "returned" /\ req_result' = r.resp
                     ELSE req_pc' = "wait" /\ req_result' = req_result
    /\ UNCHANGED <<msg_type_arg, req_seqnum, req_retries, req_timeout, handled,
                   handler_raised>>
    /\ UNCHANGED notRequestVars

\* get_response wakes within block_time and finds the expected response.
GetResponseFound ==
    /\ req_pc = "wait"
    /\ LET r == ScanResponses(resp_queue, plus_one(req_seqnum))
       IN /\ r.found
          /\ resp_queue' = r.queue
          /\ req_result' = r.resp
          /\ req_pc' = "returned"
    /\ UNCHANGED <<msg_type_arg, req_seqnum, req_retries, req_timeout,
                   req_attempts, datagrams, reads, handled, handler_raised>>
    /\ UNCHANGED notRequestVars

\* get_response returns None after block_time: the attempt is a timeout.
GetResponseNone ==
    /\ req_pc = "wait"
    /\ req_pc' = "loop"
    /\ UNCHANGED <<msg_type_arg, req_seqnum, req_retries, req_timeout,
                   req_attempts, datagrams, reads, req_result, resp_queue,
                   handled, handler_raised>>
    /\ UNCHANGED notRequestVars

\* The loop ends without a response: CTPConnectionError.
SendRequestRaise ==
    /\ req_pc = "loop"
    /\ ~(req_attempts < MaxAttempts(req_retries))
    /\ req_pc' = "raised"
    /\ req_result' = CTPConnectionError
    /\ UNCHANGED <<msg_type_arg, req_seqnum, req_retries, req_timeout,
                   req_attempts, datagrams, reads, resp_queue, handled,
                   handler_raised>>
    /\ UNCHANGED notRequestVars

\* The destination's listener unpacks the next datagram and its handler
\* handles it: nothing is sent for NO_OP and PEERLIST_PUSH; otherwise
\* send_response is called, and the response, if it could be packed, reaches
\* the requester's listener, which puts it on its queue.
HandleDatagram(rt) ==
    /\ handled < Len(datagrams)
    /\ handled' = handled + 1
    /\ LET req == unpack_message(datagrams[handled + 1])
           resp == send_response(req, rt)
       IN IF expects_no_response(req.msg_type)
          THEN UNCHANGED <<resp_queue, handler_raised>>
          ELSE IF resp.error
               THEN handler_raised' = TRUE /\ UNCHANGED resp_queue
               ELSE /\ resp_queue' = Append(resp_queue,
                            unpack_message([msg_type |-> resp.msg_type,
                                            seqnum |-> resp.seqnum]))
                    /\ UNCHANGED handler_raised
    /\ UNCHANGED <<msg_type_arg, req_seqnum, req_retries, req_timeout,
                   req_attempts, req_pc, datagrams, reads, req_result>>
    /\ UNCHANGED notRequestVars

(***************************************************************************)
(* src/util/files.py: File.write_temp_file and File.from_temp_file         *)
(***************************************************************************)

MaxBlocks == 3                   \* block_count of the files of the model
CRTEMP_SIG == <<67, 82, 84, 69, 77, 80>>      \* 'CRTEMP'
MINUS_ONE == <<255, 255, 255, 255>>           \* (-1).to_bytes(4, 'big', signed=True)

\* The data a downloaded block may hold.
BlockDatas == {<<97>>, <<98, 99>>}

\* Block.__init__ with data: downloaded is len(data) # 0.
Block(data) == [data |-> data, downloaded |-> Len(data) # 0]

\* File.__init__: block_count blocks without data; blocks[i + 1] is the
\* block of block_id i.
File_init(n) == [i \in 1..n |-> Block(<<>>)]

\* File.downloaded: every block is downloaded.
File_downloaded(file_blocks) ==
    \A i \in 1..Len(file_blocks) : file_blocks[i].downloaded

\* b''.join of the data of the downloaded blocks among the first k.
RECURSIVE temp_data(_, _)
temp_data(file_blocks, k) ==
    IF k = 0 THEN <<>>
    ELSE temp_data(file_blocks, k - 1)
            \o (IF file_blocks[k].downloaded THEN file_blocks[k].data ELSE <<>>)

\* The block pointer write_temp_file gives block k: -1 if it is not
\* downloaded, otherwise the length of the data written before it.
block_pointer(file_blocks, k) ==
    IF ~file_blocks[k].downloaded THEN MINUS_ONE
    ELSE to_bytes(Len(temp_data(file_blocks, k - 1)))

RECURSIVE join_pointers(_, _)
join_pointers(file_blocks, k) ==
    IF k = 0 THEN <<>>
    ELSE IF k = 1 THEN block_pointer(file_blocks, 1)
    ELSE join_pointers(file_blocks, k - 1) \o CRLF \o block_pointer(file_blocks, k)

\* File.write_temp_file: the bytes of the CRTEMP file.
write_temp_file(file_blocks) ==
    CRTEMP_SIG \o SPACE \o str_int(Len(file_blocks)) \o CRLF
        \o join_pointers(file_blocks, Len(file_blocks))
        \o CRLFCRLF \o temp_data(file_blocks, Len(file_blocks))

\* int.from_bytes(b, byteorder='big', signed=True).
from_bytes_signed(b) ==
    IF b = <<>> THEN 0
    ELSE IF b[1] >= 128
         THEN -(from_bytes([i \in 1..Len(b) |-> 255 - b[i]]) + 1)
         ELSE from_bytes(b)

\* data[first:last] and data[first:] for first, last >= 0.
slice(data, first, last) == SubSeq(data, first + 1, Min(last, Len(data)))
slice_from(data, first) == SubSeq(data, first + 1, Len(data))

NotLoaded == [error |-> "not loaded", blocks |-> <<>>]
FileError == [error |-> "FileError", blocks |-> <<>>]

\* File.from_temp_file on the bytes of a CRTEMP file: the blocks of the File
\* it returns, or the exception it raises.
from_temp_file(file_raw) ==
    LET cut == find(file_raw, CRLFCRLF)
        header == split_lines(SubSeq(file_raw, 1, cut - 1))
        data == SubSeq(file_raw, cut + 4, Len(file_raw))
        l1_split == split_space(header[1])
        n == Len(header) - 1
        first_bytepos(k) == from_bytes_signed(header[k + 1])
        pointed_data(k) ==
            IF first_bytepos(k) = -1 THEN <<>>
            ELSE IF k = n THEN slice_from(data, first_bytepos(k))
            ELSE IF first_bytepos(k + 1) = -1
                 THEN slice_from(data, first_bytepos(k))
                 ELSE slice(data, first_bytepos(k), first_bytepos(k + 1))
    IN IF cut = 0 THEN [error |-> "IndexError", blocks |-> <<>>]
       ELSE IF Len(l1_split) # 2 THEN FileError
       ELSE IF ~IsDigits(l1_split[2]) THEN [error |-> "ValueError", blocks |-> <<>>]
       ELSE IF l1_split[1] # CRTEMP_SIG THEN FileError
       ELSE IF int(l1_split[2]) # n THEN FileError
       ELSE [error |-> "",
             blocks |-> [k \in 1..n |->
                            [data |-> pointed_data(k),
                             downloaded |-> ~(pointed_data(k) = <<>>)]]]

TempInit ==
    /\ temp_blocks = <<>>
    /\ crtemp_file = [exists |-> FALSE, data |-> <<>>]
    /\ loaded = NotLoaded

\* File(fileinfo) for a descriptor of n blocks.
NewFile(n) ==
    /\ temp_blocks = <<>>
    /\ temp_blocks' = File_init(n)
    /\ UNCHANGED <<crtemp_file, loaded>>
    /\ UNCHANGED notTempVars

\* A block of the file is downloaded: `block.downloaded = True` and
\* `block.data = response_block.data`.
DownloadBlock(i, d) ==
    /\ i \in 1..Len(temp_blocks)
    /\ ~temp_blocks[i].downloaded
    /\ temp_blocks' = [temp_blocks EXCEPT ![i] = [data |-> d, downloaded |-> TRUE]]
    /\ UNCHANGED <<crtemp_file, loaded>>
    /\ UNCHANGED notTempVars

\* File.write_temp_file of a file that is not fully downloaded (it raises
\* FileError before it writes anything if the file is).
WriteTempFile ==
    /\ temp_blocks # <<>>
    /\ ~File_downloaded(temp_blocks)
    /\ crtemp_file' = [exists |-> TRUE, data |-> write_temp_file(temp_blocks)]
    /\ UNCHANGED <<temp_blocks, loaded>>
    /\ UNCHANGED notTempVars

\* File.from_temp_file of the CRTEMP file in the shared directory.
FromTempFile ==
    /\ crtemp_file.exists
    /\ loaded' = from_temp_file(crtemp_file.data)
    /\ UNCHANGED <<temp_blocks, crtemp_file>>
    /\ UNCHANGED notTempVars

(***************************************************************************)
(* src/util/files.py: Block.pack and Block.unpack                          *)
(***************************************************************************)

\* Block.__init__: a block of a filehash, a block_id and data.
NewBlock(filehash, block_id, data) ==
    [none |-> FALSE, filehash |-> filehash, block_id |-> block_id,
     data |-> data, downloaded |-> ~(Len(data) = 0)]

\* Filehashes (16 bytes): letters only, one with CR and LF apart, one that
\* holds CR LF CR LF.
PackHashes ==
    {FileHash,
     <<13, 66, 10, 68, 69, 70, 71, 72, 73, 74, 75, 76, 77, 78, 79, 80>>,
     <<65, 66, 13, 10, 13, 10, 71, 72, 73, 74, 75, 76, 77, 78, 79, 80>>}

\* Block ids: 0, 1, 0x0D0A, 0x0D0A0D0A, 2^31 - 1.
PackIds == {0, 1, 3338, 218762506, 2147483647}

\* Block data: empty, one byte, the separator, the separator inside data.
PackDatas == {<<>>, <<97>>, CRLFCRLF, <<97>> \o CRLFCRLF \o <<98>>}

\* Block.__eq__.
Block_eq(a, b) ==
    /\ a.none = b.none
    /\ ~a.none =>
          /\ a.filehash = b.filehash
          /\ a.block_id = b.block_id
          /\ a.data = b.data
          /\ a.downloaded = b.downloaded

BlockInit ==
    /\ block_in = NoBlock
    /\ block_packet = <<>>
    /\ block_out = NoBlock
    /\ block_pc = "idle"

\* b = Block(filehash, block_id, data); packet = b.pack().
PackBlock(filehash, block_id, data) ==
    /\ block_pc = "idle"
    /\ block_in' = NewBlock(filehash, block_id, data)
    /\ block_packet' = pack(filehash, block_id, data)
    /\ block_pc' = "packed"
    /\ UNCHANGED block_out
    /\ UNCHANGED notBlockVars

\* Block.unpack(packet).
UnpackBlock ==
    /\ block_pc = "packed"
    /\ block_out' = unpack(block_packet)
    /\ block_pc' = "unpacked"
    /\ UNCHANGED <<block_in, block_packet>>
    /\ UNCHANGED notBlockVars

(***************************************************************************)
(* src/ctp/ctp.py: CTPMessage.pack and CTPMessage.unpack                   *)
(***************************************************************************)

HEADER_LENGTH == 70
ID_LENGTH == 32

\* CTPMessage.__init__ with valid arguments: data_length is len(data).
CTPMessage(msg_type, data, cluster_id, sender_id) ==
    [error |-> "", msg_type |-> msg_type, data_length |-> Len(data),
     data |-> data, cluster_id |-> cluster_id, sender_id |-> sender_id]

InvalidCTPMessageError ==
    [error |-> "InvalidCTPMessageError", msg_type |-> "", data_length |-> 0,
     data |-> <<>>, cluster_id |-> <<>>, sender_id |-> <<>>]

\* struct.pack('!H', n).
pack_H(n) == <<(n \div 256) % 256, n % 256>>

\* CTPMessage.pack: the type in 2 bytes, data_length in 4 bytes, the two ids
\* in 32 bytes each, then the data.
CTPMessage_pack(m) ==
    pack_H(CTPMessageType[m.msg_type]) \o to_bytes(m.data_length)
        \o m.cluster_id \o m.sender_id \o m.data

\* bytes.decode('ascii') succeeds.
IsAscii(b) == \A i \in 1..Len(b) : b[i] < 128

\* Mutant of packet_data: the data is taken one byte late.
packet_dataOffByOne(packet) == SubSeq(packet, HEADER_LENGTH + 2, Len(packet))

\* packet[cls.HEADER_LENGTH:]
packet_data(packet) == SubSeq(packet, HEADER_LENGTH + 1, Len(packet))

\* CTPMessage.unpack / unpack_header: the message of a packet, or
\* InvalidCTPMessageError.
CTPMessage_unpack(packet) ==
    IF Len(packet) < HEADER_LENGTH THEN InvalidCTPMessageError
    ELSE LET value == from_bytes(SubSeq(packet, 1, 2))
             names == {t \in DOMAIN CTPMessageType : CTPMessageType[t] = value}
             cluster_id == SubSeq(packet, 7, 6 + ID_LENGTH)
             sender_id == SubSeq(packet, 7 + ID_LENGTH, 6 + (2 * ID_LENGTH))
         IN IF names = {} THEN InvalidCTPMessageError
            ELSE IF ~IsAscii(cluster_id) \/ ~IsAscii(sender_id)
                 THEN InvalidCTPMessageError
            ELSE CTPMessage(CHOOSE t \in names : TRUE, packet_data(packet),
                            cluster_id, sender_id)

\* CTPMessage.__eq__.
CTPMessage_eq(a, b) ==
    /\ a.error = "" /\ b.error = ""
    /\ a.msg_type = b.msg_type
    /\ a.cluster_id = b.cluster_id
    /\ a.sender_id = b.sender_id
    /\ a.data_length = b.data_length
    /\ a.data = b.data

\* Ids of 32 ASCII bytes: hexadecimal digits as uuid4().hex gives, and one
\* that holds NUL, CR, LF, a space and DEL.
HexId(c) == [i \in 1..ID_LENGTH |-> IF i % 2 = 1 THEN c ELSE 48 + (i % 10)]
OddId == [i \in 1..ID_LENGTH |-> IF i = 1 THEN 0 ELSE IF i = 2 THEN 13
              ELSE IF i = 3 THEN 10 ELSE IF i = 4 THEN 32 ELSE 127]
MessageIds == {HexId(97), OddId}

\* Bodies: empty, b'hi', CR LF CR LF, and a body that is itself a packet.
MessageBodies ==
    {<<>>, <<104, 105>>, CRLFCRLF,
     pack_H(1) \o to_bytes(0) \o HexId(98) \o HexId(99)}

CodecInit ==
    /\ msg_in = InvalidCTPMessageError
    /\ msg_packet = <<>>
    /\ msg_out = InvalidCTPMessageError
    /\ msg_pc = "idle"

\* m = CTPMessage(msg_type, data, cluster_id, sender_id); packet = m.pack().
PackMessage(msg_type, data, cluster_id, sender_id) ==
    /\ msg_pc = "idle"
    /\ msg_type \in DOMAIN CTPMessageType
    /\ Len(cluster_id) = ID_LENGTH /\ IsAscii(cluster_id)
    /\ Len(sender_id) = ID_LENGTH /\ IsAscii(sender_id)
    /\ msg_in' = CTPMessage(msg_type, data, cluster_id, sender_id)
    /\ msg_packet' = CTPMessage_pack(CTPMessage(msg_type, data, cluster_id, sender_id))
    /\ msg_pc' = "packed"
    /\ UNCHANGED msg_out
    /\ UNCHANGED notCodecVars

\* CTPMessage.unpack(packet).
UnpackMessage ==
    /\ msg_pc = "packed"
    /\ msg_out' = CTPMessage_unpack(msg_packet)
    /\ msg_pc' = "unpacked"
    /\ UNCHANGED <<msg_in, msg_packet>>
    /\ UNCHANGED notCodecVars

(***************************************************************************)
(* src/util/files.py: SharedDirectory.refresh                              *)
(***************************************************************************)

DirNames == {"a", "b"}           \* filenames in the shared directory
Absent == [exists |-> FALSE, data |-> <<>>]
Present(data) == [exists |-> TRUE, data |-> data]

\* Well-formed CRINFO bytes of a file of `size` bytes.
GoodCrinfo(name, size) == write(FileInfo(md5(<<97>>), name, size, 1))
OneBlockSize == 1
TwoBlockSize == 2000

\* CRTEMP bytes: two blocks of which the first is downloaded; one block, not
\* downloaded; no CR LF CR LF at all; a first line without a block count.
TempTwoBlocks == write_temp_file(<<Block(<<97>>), Block(<<>>)>>)
TempOneBlock == write_temp_file(<<Block(<<>>)>>)
TempNoSeparator == <<120>>
TempBadLine == CRTEMP_SIG \o CRLFCRLF

\* What the directory may hold for the filename `name`:
\* the data file, the .crtemp file and the .crinfo file.
DirEntry(d, t, c) == [data |-> d, temp |-> t, crinfo |-> c]
FullEntries(name) ==
    {DirEntry(Absent, Absent, Absent),
     DirEntry(Present(<<97>>), Absent, Absent),
     DirEntry(Present(<<97>>), Absent, Present(GoodCrinfo(name, OneBlockSize))),
     DirEntry(Absent, Present(TempTwoBlocks), Present(GoodCrinfo(name, TwoBlockSize))),
     DirEntry(Absent, Present(TempTwoBlocks), Absent),
     DirEntry(Absent, Absent, Present(GoodCrinfo(name, OneBlockSize))),
     DirEntry(Absent, Present(TempNoSeparator), Present(GoodCrinfo(name, OneBlockSize))),
     DirEntry(Absent, Present(TempTwoBlocks), Present(GoodCrinfo(name, OneBlockSize))),
     DirEntry(Absent, Present(TempOneBlock), Present(GoodCrinfo(name, TwoBlockSize))),
     DirEntry(Absent, Present(TempBadLine), Present(GoodCrinfo(name, OneBlockSize))),
     DirEntry(Absent, Absent, Present(<<120>>)),
     DirEntry(Present(<<97>>), Absent, Present(<<120>>))}
FewEntries(name) ==
    {DirEntry(Absent, Absent, Absent),
     DirEntry(Present(<<97>>), Absent, Absent),
     DirEntry(Absent, Absent, Present(GoodCrinfo(name, OneBlockSize)))}

\* The outcome of loading a File: its blocks, or the exception raised.
Loaded(file_blocks) == [error |-> "", blocks |-> file_blocks]
Raised(e) == [error |-> e, blocks |-> <<>>]

\* File.from_temp_file(D/<name>.crtemp) with the descriptor looked up in
\* D/crinfo: the outcome of from_crinfo, of the parse, and of
\* `file.blocks[i].data = block_data[i]` for i in range(block_count), where
\* file.blocks has as many blocks as the descriptor says.
load_temp_file(name, file_raw, crinfo) ==
    IF ~crinfo.exists THEN Raised("FileError")
    ELSE LET fileinfo == FileInfo_from_bytes(name, crinfo.data)
         IN IF fileinfo = ValueError THEN Raised("ValueError")
            ELSE LET parsed == from_temp_file(file_raw)
                     n == block_count(fileinfo.filesize)
                 IN IF parsed.error # "" THEN Raised(parsed.error)
                    ELSE IF Len(parsed.blocks) > n THEN Raised("IndexError")
                    ELSE Loaded([i \in 1..n |->
                                   IF i <= Len(parsed.blocks)
                                   THEN parsed.blocks[i] ELSE Block(<<>>)])

\* f.read(MAX_BLOCK_SIZE) for block i of a data file.
read_block(data, i) ==
    SubSeq(data, ((i - 1) * MAX_BLOCK_SIZE) + 1, Min(i * MAX_BLOCK_SIZE, Len(data)))

\* File.from_file(D/<name>): the descriptor is read from D/crinfo or, if
\* there is none, made from the file; every block is marked downloaded.
load_file(name, data, crinfo) ==
    LET fileinfo == IF crinfo.exists THEN FileInfo_from_bytes(name, crinfo.data)
                    ELSE FileInfo(md5(data), name, Len(data), Now)
    IN IF fileinfo = ValueError THEN Raised("ValueError")
       ELSE Loaded([i \in 1..block_count(fileinfo.filesize) |->
                       [data |-> read_block(data, i), downloaded |-> TRUE]])

\* File.from_crinfo(D/crinfo/<name>.crinfo): a File without data.
load_crinfo(name, crinfo) ==
    LET fileinfo == FileInfo_from_bytes(name, crinfo.data)
    IN IF fileinfo = ValueError THEN Raised("ValueError")
       ELSE Loaded(File_init(block_count(fileinfo.filesize)))

\* The children of D that are files, and those of D/crinfo.
Child(kind, name) == [kind |-> kind, name |-> name]
StrayChild == Child("stray", "")
DirChildren ==
    {Child("data", n) : n \in {m \in DirNames : data_files[m].exists}}
        \cup {Child("temp", n) : n \in {m \in DirNames : temp_files[m].exists}}
CrinfoChildren ==
    {Child("crinfo", n) : n \in {m \in DirNames : crinfo_files[m].exists}}
        \cup (IF stray THEN {StrayChild} ELSE {})

DirInit ==
    /\ data_files = [n \in DirNames |-> Absent]
    /\ temp_files = [n \in DirNames |-> Absent]
    /\ crinfo_files = [n \in DirNames |-> Absent]
    /\ stray = FALSE
    /\ filemap = <<>>
    /\ todo = {}
    /\ loaded_crinfos = {}
    /\ refresh_pc = "idle"
    /\ populated = FALSE

\* The directory is filled, outside the program.
Populate(entry_a, entry_b, s) ==
    /\ ~populated
    /\ refresh_pc = "idle"
    /\ populated' = TRUE
    /\ data_files' = ("a" :> entry_a.data) @@ ("b" :> entry_b.data)
    /\ temp_files' = ("a" :> entry_a.temp) @@ ("b" :> entry_b.temp)
    /\ crinfo_files' = ("a" :> entry_a.crinfo) @@ ("b" :> entry_b.crinfo)
    /\ stray' = s
    /\ UNCHANGED <<filemap, todo, loaded_crinfos, refresh_pc>>
    /\ UNCHANGED notDirVars

\* A file of the directory is removed, outside the program.
RemoveFile(kind, name) ==
    /\ populated
    /\ refresh_pc \in {"idle", "done"}
    /\ refresh_pc' = "idle"
    /\ \/ kind = "data" /\ data_files[name].exists
          /\ data_files' = [data_files EXCEPT ![name] = Absent]
          /\ UNCHANGED <<temp_files, crinfo_files>>
       \/ kind = "temp" /\ temp_files[name].exists
          /\ temp_files' = [temp_files EXCEPT ![name] = Absent]
          /\ UNCHANGED <<data_files, crinfo_files>>
       \/ kind = "crinfo" /\ crinfo_files[name].exists
          /\ crinfo_files' = [crinfo_files EXCEPT ![name] = Absent]
          /\ UNCHANGED <<data_files, temp_files>>
    /\ UNCHANGED <<stray, filemap, todo, loaded_crinfos, populated>>
    /\ UNCHANGED notDirVars

\* refresh is called: loaded_crinfos = [] and the scan of D begins.
RefreshBegin ==
    /\ populated
    /\ refresh_pc \in {"idle", "done"}
    /\ refresh_pc' = "scan_dir"
    /\ todo' = DirChildren
    /\ loaded_crinfos' = {}
    /\ UNCHANGED <<data_files, temp_files, crinfo_files, stray, filemap, populated>>
    /\ UNCHANGED notDirVars

\* The except clauses of the scan of D: ValueError and FileError around
\* from_temp_file, ValueError around from_file.
Caught(kind, e) ==
    IF kind = "temp" THEN e \in {"ValueError", "FileError"} ELSE e = "ValueError"

\* One iteration of `for child in self.dirpath.iterdir()`, in the order the
\* file system yields the children.
RefreshScanDir(child) ==
    /\ refresh_pc = "scan_dir"
    /\ child \in todo
    /\ LET name == child.name
           file == IF child.kind = "temp"
                   THEN load_temp_file(name, temp_files[name].data, crinfo_files[name])
                   ELSE load_file(name, data_files[name].data, crinfo_files[name])
       IN IF file.error = ""
          THEN /\ filemap' = (name :> file.blocks) @@ filemap
               /\ loaded_crinfos' = loaded_crinfos \cup {name}
               /\ todo' = todo \ {child}
               /\ UNCHANGED refresh_pc
          ELSE IF Caught(child.kind, file.error)
          THEN /\ todo' = todo \ {child}
               /\ UNCHANGED <<filemap, loaded_crinfos, refresh_pc>>
          ELSE /\ refresh_pc' = "raised"
               /\ UNCHANGED <<filemap, loaded_crinfos, todo>>
    /\ UNCHANGED <<data_files, temp_files, crinfo_files, stray, populated>>
    /\ UNCHANGED notDirVars

\* The scan of D has ended; the scan of D/crinfo begins.
RefreshScanned ==
    /\ refresh_pc = "scan_dir"
    /\ todo = {}
    /\ refresh_pc' = "scan_crinfo"
    /\ todo' = CrinfoChildren
    /\ UNCHANGED <<data_files, temp_files, crinfo_files, stray, filemap,
                   loaded_crinfos, populated>>
    /\ UNCHANGED notDirVars

\* One iteration of `for child in self.crinfo_dirpath.iterdir()`: a child in
\* loaded_crinfos is skipped, any other is passed to File.from_crinfo, which
\* raises ValueError for a path that does not end in .crinfo.
RefreshScanCrinfo(child) ==
    /\ refresh_pc = "scan_crinfo"
    /\ child \in todo
    /\ IF child.kind = "crinfo" /\ child.name \in loaded_crinfos
       THEN todo' = todo \ {child} /\ UNCHANGED <<filemap, refresh_pc>>
       ELSE LET file == IF child.kind = "stray" THEN Raised("ValueError")
                        ELSE load_crinfo(child.name, crinfo_files[child.name])
            IN IF file.error = ""
               THEN /\ filemap' = (child.name :> file.blocks) @@ filemap
                    /\ todo' = todo \ {child}
                    /\ UNCHANGED refresh_pc
               ELSE /\ refresh_pc' = "raised"
                    /\ UNCHANGED <<filemap, todo>>
    /\ UNCHANGED <<data_files, temp_files, crinfo_files, stray, loaded_crinfos,
                   populated>>
    /\ UNCHANGED notDirVars

\* refresh returns.
RefreshEnd ==
    /\ refresh_pc = "scan_crinfo"
    /\ todo = {}
    /\ refresh_pc' = "done"
    /\ UNCHANGED <<data_files, temp_files, crinfo_files, stray, filemap, todo,
                   loaded_crinfos, populated>>
    /\ UNCHANGED notDirVars

(***************************************************************************)
(* src/control-server/server.py: Server.end                                *)
(***************************************************************************)

notSrvEndVars == <<ctpVars, syncVars, filesVars, manifestVars, pushVars, requestVars, tempVars, blockVars, codecVars, dirVars, missingVars, addVars, storeVars, raceVars, handleVars, threadVars, sendVars, callVars>>

EndInit == ended = FALSE

\* Cluster.end: cancel() on every value of peertimers that is not None.  A
\* Timer that peertimers no longer holds is not reached.
Cluster_end(timers) ==
    [p \in DOMAIN timers |->
        IF timers[p].st = "None" THEN NoTimer ELSE Cancelled]

\* Server.end: clusters_stop_signal.set(), Cluster.end() on every cluster and
\* CTPPeer.end(), which is Listener.stop(): _stop_listening.set().  No thread
\* is joined: the listener and the watchers go on to their next test of the
\* signal.
ServerEnd ==
    /\ ~ended
    /\ ended' = TRUE
    /\ peertimers' = [c \in KnownClusters |-> Cluster_end(peertimers[c])]
    /\ request' = NoRequest
    /\ outbox' = <<>>
    /\ UNCHANGED <<peermap, untracked, peer_left, watcher, listening, idle,
                   unpublished>>
    /\ UNCHANGED notSrvEndVars

\* Listener._listen was in recvfrom when _stop_listening was set: the datagram
\* it receives is handled as in HandleRequest, and the loop's next test of
\* the signal ends the thread.
HandleLastRequest(p, a, c, t, s) ==
    LET req == [msg_type |-> t, seqnum |-> s, cluster_id |-> c,
                sender_id |-> p, addr |-> a]
        raises == \/ c \notin KnownClusters
                  \/ /\ p \in DOMAIN peermap[c]
                     /\ peertimers[c][p].st = "None"
        cl == IF p \in DOMAIN peermap[c]
              THEN reset_peertimer(ClusterOf(c), p)
              ELSE ClusterOf(c)
        done == IF t = "CLUSTER_JOIN_REQUEST"
                THEN handle_cluster_join_request(cl, req)
                ELSE handle_status_request(cl, req)
    IN /\ ended
       /\ listening
       /\ request' = req
       /\ listening' = FALSE
       /\ IF raises
          THEN /\ outbox' = <<>>
               /\ UNCHANGED <<peermap, peertimers, untracked, peer_left, idle,
                              unpublished>>
          ELSE /\ Len(done.cluster.untracked) <= MaxUntracked
               /\ SetCluster(c, done.cluster)
               /\ outbox' = done.sent
               /\ idle' = [idle EXCEPT ![p] = 0]
               /\ unpublished' = IF t = "CLUSTER_JOIN_REQUEST"
                                 THEN [unpublished EXCEPT ![c] = @ \ {p}]
                                 ELSE unpublished
       /\ UNCHANGED watcher
       /\ UNCHANGED notSrvVars

\* Listener._listen tests _stop_listening at the top of its loop and returns.
ListenerStop ==
    /\ ended
    /\ listening
    /\ listening' = FALSE
    /\ request' = NoRequest
    /\ outbox' = <<>>
    /\ UNCHANGED <<peermap, peertimers, untracked, peer_left, watcher, idle,
                   unpublished>>
    /\ UNCHANGED notSrvVars

\* Server._watch_cluster, in its inner loop, wakes from sleep(1) and finds
\* clusters_stop_signal set: peer_left_ack() and return.
WatcherReturn(c) ==
    /\ ended
    /\ watcher[c] = "wait"
    /\ watcher' = [watcher EXCEPT ![c] = "returned"]
    /\ peer_left' = [peer_left EXCEPT ![c] = FALSE]
    /\ request' = NoRequest
    /\ outbox' = <<>>
    /\ UNCHANGED <<peermap, peertimers, untracked, listening, idle, unpublished>>
    /\ UNCHANGED notSrvVars

\* Server._watch_cluster, after push_peerlist returned and with
\* clusters_stop_signal set: peer_left_ack(), the outer loop ends.
WatcherAckEnd(c) ==
    /\ ended
    /\ watcher[c] = "pushed"
    /\ watcher' = [watcher EXCEPT ![c] = "returned"]
    /\ peer_left' = [peer_left EXCEPT ![c] = FALSE]
    /\ request' = NoRequest
    /\ outbox' = <<>>
    /\ UNCHANGED <<peermap, peertimers, untracked, listening, idle, unpublished>>
    /\ UNCHANGED notSrvVars

(***************************************************************************)
(* src/client/client.py: sync_manifest after a failed sync_manifest        *)
(***************************************************************************)

\* The ways sync_manifest leaves through an exception once it has called the
\* server.
FetchFailures == {"ServerConnectionError", "RuntimeError"}

\* sync_manifest is called again after it failed, the server's files being
\* what they were: MANIFEST_REQUEST, then SharedDirectory.add_fileinfo, which
\* puts a new File of the CRINFO in the filemap (File.from_crinfo: no block
\* downloaded) and writes its .crtemp, then delete_local_copy at the start of
\* _update_manifest_file, which unlinks the file and the .crtemp.
SyncManifestAgain(answered) ==
    /\ manifest_pc \in FetchFailures
    /\ LET srv == handle_manifest_request(ThisFiles)
           info == FileInfo_from_bytes(FILE_MANIFEST_FILENAME, srv.response.data)
       IN /\ SetFiles(srv)
          /\ IF ~answered
             THEN /\ manifest_pc' = "ServerConnectionError"
                  /\ UNCHANGED <<manifest_info, manifest_blocks, manifest_idx,
                                 manifest_disk>>
             ELSE IF info = ValueError
             THEN /\ manifest_pc' = "ValueError"
                  /\ UNCHANGED <<manifest_info, manifest_blocks, manifest_idx,
                                 manifest_disk>>
             ELSE /\ manifest_info' = info
                  /\ manifest_blocks' =
                        [i \in 0..(block_count(info.filesize) - 1) |-> <<>>]
                  /\ manifest_idx' = 0
                  /\ manifest_disk' = [file |-> FALSE, data |-> <<>>,
                                       crtemp |-> FALSE]
                  /\ manifest_pc' = "fetch"
    /\ UNCHANGED manifest_filelist
    /\ UNCHANGED notManifestVars

(***************************************************************************)
(* src/client/client.py: _req_missing_fileinfos_from_manifest              *)
(***************************************************************************)

FILENAME_PREFIX == <<102, 105, 108, 101, 110, 97, 109, 101, 58, 32>>    \* 'filename: '
COLON_SPACE == <<58, 32>>
UNKNOWN_FILENAME ==
    <<117, 110, 107, 110, 111, 119, 110, 32, 102, 105, 108, 101, 110, 97, 109, 101>>

\* A filename with a CR LF in it: 'a\r\nb'.
BrokenName == <<97, 13, 10, 98>>

\* The key sets of the server's fileinfo_map, and of the peer's filemap, when
\* sync_manifest is called.
ServerNames ==
    (SUBSET {<<97>>, <<98>>, <<99>>}) \cup {{BrokenName}, {<<97>>, BrokenName}}
LocalNames == SUBSET {<<97>>, <<98>>}

\* A File of the peer's shared directory that is stored in full.
LocalFile == <<Block(<<120>>)>>

\* ServerRequestHandler.handle_crinfo_request under handle's try/except: the
\* body is split at the first ': ' (IndexError without one, answered
\* SERVER_ERROR), the filename is looked up in fileinfo_map and its stored
\* CRINFO bytes are returned.
handle_crinfo_request(fs, body) ==
    LET cut == find(body, COLON_SPACE)
        filename == SubSeq(body, cut + 2, Len(body))
    IN IF cut = 0 THEN [msg_type |-> "SERVER_ERROR", data |-> <<>>]
       ELSE IF filename \in DOMAIN fs.fileinfo_map
            THEN IF fs.crinfo_dir[filename] # <<>>
                 THEN [msg_type |-> "CRINFO_RESPONSE",
                       data |-> fs.crinfo_dir[filename]]
                 ELSE [msg_type |-> "SERVER_ERROR", data |-> <<>>]
       ELSE [msg_type |-> "INVALID_REQ", data |-> UNKNOWN_FILENAME]

\* SharedDirectory.add_fileinfo: FileInfo._from_bytes, then File.from_crinfo,
\* a File of block_count blocks without data, whose write_temp_file raises
\* FileError if it has no block; otherwise the File is put in the filemap.
SharedDirectory_add_fileinfo(fm, filename, data) ==
    LET info == FileInfo_from_bytes(filename, data)
        file == File_init(block_count(info.filesize))
    IN IF info = ValueError THEN ValueError
       ELSE IF File_downloaded(file) THEN FileError
       ELSE [error |-> "", filemap |-> (filename :> file) @@ fm]

MissingInit ==
    /\ shared_filemap = <<>>
    /\ local_before = {}
    /\ missing_idx = 0
    /\ missing_pc = "idle"

\* sync_manifest has parsed the manifest and calls
\* _req_missing_fileinfos_from_manifest on a peer whose shared directory
\* holds the files `local`.
ReqMissingBegin(local) ==
    /\ manifest_pc = "returned"
    /\ missing_pc = "idle"
    /\ shared_filemap' = [n \in local |-> LocalFile]
    /\ local_before' = local
    /\ missing_idx' = 1
    /\ missing_pc' = "loop"
    /\ UNCHANGED notMissingVars

\* One pass of `for filename in self.manifest_filelist`: a filename that is
\* a key of the filemap is skipped; otherwise CRINFO_REQUEST is sent.  No
\* answer after the retries and SERVER_ERROR raise ServerConnectionError,
\* INVALID_REQ returns from the function, CRINFO_RESPONSE goes to
\* add_fileinfo.
ReqMissingFileinfo(answered) ==
    /\ missing_pc = "loop"
    /\ missing_idx <= Len(manifest_filelist)
    /\ LET filename == manifest_filelist[missing_idx]
           resp == handle_crinfo_request(ThisFiles, FILENAME_PREFIX \o filename)
           added == SharedDirectory_add_fileinfo(shared_filemap, filename, resp.data)
       IN IF filename \in DOMAIN shared_filemap
          THEN /\ missing_idx' = missing_idx + 1
               /\ UNCHANGED <<shared_filemap, missing_pc>>
          ELSE IF ~answered \/ resp.msg_type = "SERVER_ERROR"
          THEN /\ missing_pc' = "ServerConnectionError"
               /\ UNCHANGED <<shared_filemap, missing_idx>>
          ELSE IF resp.msg_type = "INVALID_REQ"
          THEN /\ missing_pc' = "returned"
               /\ UNCHANGED <<shared_filemap, missing_idx>>
          ELSE IF added.error # ""
          THEN /\ missing_pc' = added.error
               /\ UNCHANGED <<shared_filemap, missing_idx>>
          ELSE /\ shared_filemap' = added.filemap
               /\ missing_idx' = missing_idx + 1
               /\ UNCHANGED missing_pc
    /\ UNCHANGED local_before
    /\ UNCHANGED notMissingVars

\* The loop is through: the function returns and so does sync_manifest.
ReqMissingEnd ==
    /\ missing_pc = "loop"
    /\ missing_idx > Len(manifest_filelist)
    /\ missing_pc' = "returned"
    /\ UNCHANGED <<shared_filemap, local_before, missing_idx>>
    /\ UNCHANGED notMissingVars

(***************************************************************************)
(* src/util/files.py: SharedDirectory.add_fileinfo on the directory        *)
(***************************************************************************)

notDirAddVars == <<ctpVars, srvVars, syncVars, filesVars, manifestVars, pushVars, requestVars, tempVars, blockVars, codecVars, endVars, missingVars, storeVars, raceVars, handleVars, threadVars, sendVars, callVars>>

\* The filesizes and filehashes of the descriptors given to add_fileinfo: no
\* block, one block, a full block, two blocks; a digest without and one with
\* the bytes CR LF.
AddSizes == {0, 1, MAX_BLOCK_SIZE, MAX_BLOCK_SIZE + 1, TwoBlockSize}
PlainHash == md5(<<97>>)
HashWithCRLF == <<65, 66, 13, 10, 69, 70, 71, 72, 73, 74, 75, 76, 77, 78, 79, 80>>
AddHashes == {PlainHash, HashWithCRLF}

NoAdd == [name |-> "", filesize |-> 0, error |-> ""]

AddInit == add_result = NoAdd

\* SharedDirectory.add_fileinfo(name, data) with data the CRINFO bytes of a
\* file of `size` bytes and digest `hash`: FileInfo._from_bytes (ValueError),
\* fileinfo.write(), File.from_crinfo, file.write_temp_file() (FileError when
\* the File is downloaded, which a File without blocks is), and only then
\* filemap[name] = file.
AddFileinfo(name, size, hash) ==
    LET data == write(FileInfo(hash, name, size, 1))
        info == FileInfo_from_bytes(name, data)
        file == File_init(block_count(size))
    IN /\ refresh_pc \in {"idle", "done"}
       /\ IF info = ValueError
          THEN /\ add_result' = [name |-> name, filesize |-> size,
                                 error |-> "ValueError"]
               /\ UNCHANGED <<crinfo_files, temp_files, filemap>>
          ELSE /\ crinfo_files' = [crinfo_files EXCEPT ![name] = Present(write(info))]
               /\ IF File_downloaded(file)
                  THEN /\ add_result' = [name |-> name, filesize |-> size,
                                         error |-> "FileError"]
                       /\ UNCHANGED <<temp_files, filemap>>
                  ELSE /\ add_result' = [name |-> name, filesize |-> size,
                                         error |-> ""]
                       /\ temp_files' = [temp_files EXCEPT
                                           ![name] = Present(write_temp_file(file))]
                       /\ filemap' = (name :> file) @@ filemap
       /\ UNCHANGED <<data_files, stray, todo, loaded_crinfos, refresh_pc, populated>>
       /\ UNCHANGED notDirAddVars

(***************************************************************************)
(* src/client/client.py: Peer.store_file                                   *)
(***************************************************************************)

notDirStoreVars == <<ctpVars, srvVars, syncVars, filesVars, manifestVars, pushVars, requestVars, tempVars, blockVars, codecVars, endVars, missingVars, addVars, raceVars, handleVars, threadVars, sendVars, callVars>>

StoreInit == stored_name = ""

\* The copies of one file in D: the data file and the .crtemp file.
Copies(d, t) == [data |-> d, temp |-> t]

\* A delete_local_copy that unlinks the data file only.
delete_local_copyDataOnly(copies) == Copies(Absent, copies.temp)

\* File.delete_local_copy: D/<filename> and D/<filename>.crtemp are unlinked.
delete_local_copy(copies) == Copies(Absent, Absent)

\* Peer.store_file: delete_local_copy, then write_file (the joined data, at
\* D/<filename>) if the File is downloaded, else write_temp_file (at
\* D/<filename>.crtemp).
store_file(copies, file_blocks) ==
    LET deleted == delete_local_copy(copies)
    IN IF File_downloaded(file_blocks)
       THEN [deleted EXCEPT !.data = Present(temp_data(file_blocks, Len(file_blocks)))]
       ELSE [deleted EXCEPT !.temp = Present(write_temp_file(file_blocks))]

\* sync_files receives a block of a file of the filemap: block.downloaded =
\* True and block.data = the data of the response.
FillBlock(name, i) ==
    /\ refresh_pc = "done"
    /\ name \in DOMAIN filemap
    /\ i \in 1..Len(filemap[name])
    /\ ~filemap[name][i].downloaded
    /\ filemap' = [filemap EXCEPT ![name][i] = [data |-> <<98>>, downloaded |-> TRUE]]
    /\ stored_name' = ""
    /\ UNCHANGED <<data_files, temp_files, crinfo_files, stray, todo,
                   loaded_crinfos, refresh_pc, populated>>
    /\ UNCHANGED notDirStoreVars

\* store_file(file) for a file of the filemap, at the end of its sync or in
\* Peer.end().  write_file and write_temp_file begin with fileinfo.write():
\* the descriptor the File was loaded with, or the one from_file made.
StoreFile(name) ==
    /\ refresh_pc = "done"
    /\ name \in DOMAIN filemap
    /\ LET file_blocks == filemap[name]
           joined == temp_data(file_blocks, Len(file_blocks))
           copies == store_file(Copies(data_files[name], temp_files[name]), file_blocks)
       IN /\ data_files' = [data_files EXCEPT ![name] = copies.data]
          /\ temp_files' = [temp_files EXCEPT ![name] = copies.temp]
          /\ crinfo_files' = [crinfo_files EXCEPT ![name] =
                IF crinfo_files[name].exists THEN crinfo_files[name]
                ELSE Present(write(FileInfo(md5(joined), name, Len(joined), Now)))]
    /\ stored_name' = name
    /\ UNCHANGED <<stray, filemap, todo, loaded_crinfos, refresh_pc, populated>>
    /\ UNCHANGED notDirStoreVars

(***************************************************************************)
(* src/client/client.py: Peer.get_peer in the workflow thread beside       *)
(* Peer._parse_peerlist in the listener thread                             *)
(***************************************************************************)

SelfName == "self"
JoinedPeermap == <<"p", "q">>

\* The peer_ids of the peer lists the server pushes: each holds the receiver.
PushedLists == {<<"self", "p", "q">>, <<"self", "q", "r">>, <<"p", "self">>, <<"self">>}

\* The peermap the second loop of _parse_peerlist builds from a list.
RECURSIVE without_self(_)
without_self(list) ==
    IF list = <<>> THEN <<>>
    ELSE (IF list[1] # SelfName THEN <<list[1]>> ELSE <<>>) \o without_self(Tail(list))

RaceInit ==
    /\ shared_peermap = JoinedPeermap
    /\ push_prev = JoinedPeermap
    /\ push_new = JoinedPeermap
    /\ push_todo = <<>>
    /\ get_pc = "idle"
    /\ get_counter = 0
    /\ peer_index = 0
    /\ get_peer_id = ""
    /\ get_seen = JoinedPeermap
    /\ get_result = ""

\* Listener thread, _parse_peerlist after its parse loop: `self.peermap = {}`.
ParseClear(list) ==
    /\ push_todo = <<>>
    /\ shared_peermap = push_new
    /\ push_prev' = shared_peermap
    /\ push_new' = without_self(list)
    /\ shared_peermap' = <<>>
    /\ push_todo' = list
    /\ UNCHANGED <<get_pc, get_counter, peer_index, get_peer_id, get_seen, get_result>>
    /\ UNCHANGED notRaceVars

\* Listener thread, one pass of `for peerinfo in peerlist`:
\* self.peermap[peerinfo.peer_id] = peerinfo unless it is the peer itself.
ParseInsert ==
    /\ push_todo # <<>>
    /\ shared_peermap' = IF Head(push_todo) # SelfName
                         THEN shared_peermap \o <<Head(push_todo)>>
                         ELSE shared_peermap
    /\ push_todo' = Tail(push_todo)
    /\ UNCHANGED <<push_prev, push_new, get_pc, get_counter, peer_index,
                   get_peer_id, get_seen, get_result>>
    /\ UNCHANGED notRaceVars

\* Workflow thread, get_peer: `if len(self.peermap) == 0: return None`.
GetPeerLen(n) ==
    /\ get_pc \in {"idle", "returned"}
    /\ get_counter' = n
    /\ get_seen' = shared_peermap
    /\ IF Len(shared_peermap) = 0
       THEN get_pc' = "returned" /\ get_result' = "None"
       ELSE get_pc' = "nonempty" /\ get_result' = ""
    /\ UNCHANGED <<shared_peermap, push_prev, push_new, push_todo, peer_index, get_peer_id>>
    /\ UNCHANGED notRaceVars

\* Workflow thread: `peer_index = context.get("counter", 0) % len(self.peermap)`.
GetPeerIndex ==
    /\ get_pc = "nonempty"
    /\ get_seen' = shared_peermap
    /\ IF Len(shared_peermap) = 0
       THEN get_pc' = "raised" /\ get_result' = "ZeroDivisionError"
            /\ UNCHANGED peer_index
       ELSE get_pc' = "indexed" /\ peer_index' = get_counter % Len(shared_peermap)
            /\ UNCHANGED get_result
    /\ UNCHANGED <<shared_peermap, push_prev, push_new, push_todo, get_counter, get_peer_id>>
    /\ UNCHANGED notRaceVars

\* Workflow thread: `peer_id = list(self.peermap.keys())[peer_index]`.
GetPeerKey ==
    /\ get_pc = "indexed"
    /\ get_seen' = shared_peermap
    /\ IF peer_index >= Len(shared_peermap)
       THEN get_pc' = "raised" /\ get_result' = "IndexError"
            /\ UNCHANGED get_peer_id
       ELSE get_pc' = "keyed" /\ get_peer_id' = shared_peermap[peer_index + 1]
            /\ UNCHANGED get_result
    /\ UNCHANGED <<shared_peermap, push_prev, push_new, push_todo, get_counter, peer_index>>
    /\ UNCHANGED notRaceVars

\* Workflow thread: `return self.peermap.get(peer_id)`.
GetPeerReturn ==
    /\ get_pc = "keyed"
    /\ get_seen' = shared_peermap
    /\ get_pc' = "returned"
    /\ get_result' = IF \E i \in 1..Len(shared_peermap) : shared_peermap[i] = get_peer_id
                     THEN get_peer_id ELSE "None"
    /\ UNCHANGED <<shared_peermap, push_prev, push_new, push_todo, get_counter,
                   peer_index, get_peer_id>>
    /\ UNCHANGED notRaceVars

(***************************************************************************)
(* src/client/client.py: PeerRequestHandler.handle                         *)
(***************************************************************************)

\* The request types: the even values of CTPMessageType.
PeerRequests == {t \in DOMAIN CTPMessageType : is_request(t)}

\* The cases of the match statement of PeerRequestHandler.handle.
PeerDispatch == {"STATUS_REQUEST", "NOTIFICATION", "BLOCK_REQUEST", "PEERLIST_PUSH", "NO_OP"}

\* What a BLOCK_REQUEST finds: the block, no block, or a body that
\* Block.unpack returns None for.
BlockLookups == {"hit", "miss", "malformed"}

Sent(msg_type, data) == [msg_type |-> msg_type, data |-> data]

\* PeerRequestHandler.handle_unknown_request.
peer_handle_unknown_request == Sent("STATUS_RESPONSE", "status: 1")

\* PeerRequestHandler.handle for a request that is not a PEERLIST_PUSH: the
\* response sent, None for NO_OP.  requested_block.filehash of a body that
\* does not unpack raises, which handle answers SERVER_ERROR.
peer_handle(msg_type, lookup) ==
    CASE msg_type = "STATUS_REQUEST" -> Sent("STATUS_RESPONSE", "status: 1")
      [] msg_type = "NOTIFICATION" -> Sent("NOTIFICATION_ACK", "")
      [] msg_type = "BLOCK_REQUEST" ->
            IF lookup = "malformed" THEN Sent("SERVER_ERROR", "")
            ELSE Sent("BLOCK_RESPONSE", IF lookup = "hit" THEN "block" ELSE "")
      [] msg_type = "NO_OP" -> None
      [] OTHER -> peer_handle_unknown_request

HandleInit == peer_handled = [request |-> "", sent |-> None]

\* The peer's handler handles a request that is not a PEERLIST_PUSH.
PeerHandle(msg_type, lookup) ==
    /\ peer_handled' = [request |-> msg_type, sent |-> peer_handle(msg_type, lookup)]
    /\ UNCHANGED notHandleVars

(***************************************************************************)
(* src/control-server/server.py: the listener, Timer and watcher threads   *)
(* of one cluster, one statement at a time                                 *)
(***************************************************************************)

ThreadInit ==
    /\ cl_peermap = {}
    /\ cl_timers = [p \in TwoPeers |-> "absent"]
    /\ cl_peer_left = FALSE
    /\ listener_pc = "recv"
    /\ listener_peer = 0
    /\ timer_pc = [p \in TwoPeers |-> "idle"]
    /\ watch_pc = "wait"
    /\ iter_size = 0
    /\ iter_left = {}

\* Listener thread, ServerRequestHandler.handle for a request of peer p:
\* `if peer_id in ...peermap.keys()`.  A peer outside the peermap that sent a
\* CLUSTER_JOIN_REQUEST is added (add_peer: peermap entry, started Timer).
ListenerCheck(p, t) ==
    /\ listener_pc = "recv"
    /\ listener_peer' = p
    /\ IF p \in cl_peermap
       THEN listener_pc' = "reset" /\ UNCHANGED <<cl_peermap, cl_timers>>
       ELSE /\ UNCHANGED listener_pc
            /\ IF t = "CLUSTER_JOIN_REQUEST"
               THEN /\ cl_peermap' = cl_peermap \cup {p}
                    /\ cl_timers' = [cl_timers EXCEPT ![p] = "started"]
               ELSE UNCHANGED <<cl_peermap, cl_timers>>
    /\ UNCHANGED <<cl_peer_left, timer_pc, watch_pc, iter_size, iter_left>>
    /\ UNCHANGED notThreadVars

\* Listener thread, reset_peertimer(peer_id): `self.peertimers[peer_id].cancel()`
\* raises AttributeError on None, outside handle's try; _listen catches it,
\* logs it and leaves its loop.  Otherwise a new Timer is started.
ListenerReset ==
    /\ listener_pc = "reset"
    /\ IF cl_timers[listener_peer] = "None"
       THEN listener_pc' = "crashed" /\ UNCHANGED cl_timers
       ELSE /\ listener_pc' = "recv"
            /\ cl_timers' = [cl_timers EXCEPT ![listener_peer] = "started"]
    /\ UNCHANGED <<cl_peermap, cl_peer_left, listener_peer, timer_pc, watch_pc,
                   iter_size, iter_left>>
    /\ UNCHANGED notThreadVars

\* Timer thread of peer p, peer_timeout: the Timer is alive in its own
\* callback, so it is cancelled and peertimers[peer_id] = None.
TimerNone(p) ==
    /\ cl_timers[p] = "started"
    /\ timer_pc[p] = "idle"
    /\ cl_timers' = [cl_timers EXCEPT ![p] = "None"]
    /\ timer_pc' = [timer_pc EXCEPT ![p] = "remove"]
    /\ UNCHANGED <<cl_peermap, cl_peer_left, listener_pc, listener_peer, watch_pc,
                   iter_size, iter_left>>
    /\ UNCHANGED notThreadVars

\* Timer thread of peer p, remove_peer: peermap.pop(peer_id, None) and
\* peer_left.set().
TimerRemove(p) ==
    /\ timer_pc[p] = "remove"
    /\ cl_peermap' = cl_peermap \ {p}
    /\ cl_peer_left' = TRUE
    /\ timer_pc' = [timer_pc EXCEPT ![p] = "idle"]
    /\ UNCHANGED <<cl_timers, listener_pc, listener_peer, watch_pc, iter_size, iter_left>>
    /\ UNCHANGED notThreadVars

\* Watcher thread: peer_left is set; push_peerlist begins
\* `for peer in cluster.peermap.values()`.
WatchIterate ==
    /\ watch_pc = "wait"
    /\ cl_peer_left
    /\ watch_pc' = "iterate"
    /\ iter_size' = Cardinality(cl_peermap)
    /\ iter_left' = cl_peermap
    /\ UNCHANGED <<cl_peermap, cl_timers, cl_peer_left, listener_pc, listener_peer, timer_pc>>
    /\ UNCHANGED notThreadVars

\* Watcher thread: the iterator's next step.  A dict whose size is not the one
\* it had when the iteration began raises RuntimeError, which nothing in
\* _watch_cluster catches.  Otherwise the next peer is sent the list, or the
\* loop ends and peer_left_ack() clears peer_left.
WatchNext ==
    /\ watch_pc = "iterate"
    /\ IF Cardinality(cl_peermap) # iter_size
       THEN watch_pc' = "crashed" /\ UNCHANGED <<iter_left, cl_peer_left>>
       ELSE IF iter_left \cap cl_peermap = {}
       THEN watch_pc' = "wait" /\ cl_peer_left' = FALSE /\ iter_left' = {}
       ELSE /\ \E q \in iter_left \cap cl_peermap : iter_left' = iter_left \ {q}
            /\ UNCHANGED <<watch_pc, cl_peer_left>>
    /\ UNCHANGED <<cl_peermap, cl_timers, listener_pc, listener_peer, timer_pc, iter_size>>
    /\ UNCHANGED notThreadVars

(***************************************************************************)
(* src/control-server/server.py: Server.send_request called by the         *)
(* listener thread and the watcher threads                                 *)
(***************************************************************************)

\* A server with two clusters: the listener thread pushes for the cluster of
\* the join it handles, each watcher thread for its own cluster.
PushClusters == {"c1", "c2"}
Senders == {"listener", "watcher c1", "watcher c2"}
SendsFor(th) ==
    IF th = "listener" THEN PushClusters
    ELSE IF th = "watcher c1" THEN {"c1"} ELSE {"c2"}

SendInit ==
    /\ self_cluster_id = "None"
    /\ send_pc = [th \in Senders |-> "idle"]
    /\ send_arg = [th \in Senders |-> "None"]
    /\ pushed = {}

\* Server.send_request(cluster_id, PEERLIST_PUSH, ...) in thread th:
\* `self.cluster_id = cluster_id`.
SendSetClusterId(th, c) ==
    /\ send_pc[th] = "idle"
    /\ c \in SendsFor(th)
    /\ self_cluster_id' = c
    /\ send_arg' = [send_arg EXCEPT ![th] = c]
    /\ send_pc' = [send_pc EXCEPT ![th] = "set"]
    /\ UNCHANGED pushed
    /\ UNCHANGED notSendVars

\* CTPPeer.send_request in thread th: the message is built with the value
\* self.cluster_id has now and is sent; a PEERLIST_PUSH waits for no response.
\* CTPMessage raises TypeError for a cluster_id that is None: the handler's
\* try catches it in the listener thread, a watcher thread ends.
SendWithClusterId(th) ==
    /\ send_pc[th] = "set"
    /\ IF self_cluster_id = "None"
       THEN /\ send_pc' = [send_pc EXCEPT ![th] =
                              IF th = "listener" THEN "idle" ELSE "raised"]
            /\ UNCHANGED pushed
       ELSE /\ pushed' = pushed \cup {[cluster |-> send_arg[th],
                                       carried |-> self_cluster_id]}
            /\ send_pc' = [send_pc EXCEPT ![th] = "sent"]
    /\ UNCHANGED <<self_cluster_id, send_arg>>
    /\ UNCHANGED notSendVars

\* Server.send_request in thread th, after the send: `self.cluster_id = None`.
SendClearClusterId(th) ==
    /\ send_pc[th] = "sent"
    /\ self_cluster_id' = "None"
    /\ send_pc' = [send_pc EXCEPT ![th] = "idle"]
    /\ UNCHANGED <<send_arg, pushed>>
    /\ UNCHANGED notSendVars

(***************************************************************************)
(* src/ctp/peers.py: send_request calls one after another, and the         *)
(* responses earlier calls left in the queue                               *)
(***************************************************************************)

MaxCalls == 2          \* send_request calls in one run

CallInit ==
    /\ call_id = 0
    /\ call_pc = "idle"
    /\ call_seqnum = 0
    /\ call_retries = 0
    /\ call_attempts = 0
    /\ unanswered = {}
    /\ left_queue = <<>>
    /\ call_response = None

\* send_request is called once the call before it has ended:
\* seqnum = randint(0, MAX_INT_VALUE), attempts = 0.
CallBegin(s, r) ==
    /\ call_pc \in {"idle", "returned", "failed"}
    /\ call_id < MaxCalls
    /\ call_id' = call_id + 1
    /\ call_pc' = "loop"
    /\ call_seqnum' = s
    /\ call_retries' = r
    /\ call_attempts' = 0
    /\ call_response' = None
    /\ UNCHANGED <<unanswered, left_queue>>
    /\ UNCHANGED notCallVars

\* One pass of `while attempts <= retries`: the datagram is sent and
\* get_response scans the queue for seqnum + 1 before it starts its timer.
CallAttempt ==
    /\ call_pc = "loop"
    /\ call_attempts < MaxAttempts(call_retries)
    /\ call_attempts' = call_attempts + 1
    /\ unanswered' = unanswered \cup
           {[call |-> call_id, seqnum |-> call_seqnum, attempt |-> call_attempts + 1]}
    /\ LET r == ScanResponses(left_queue, call_seqnum + 1)
       IN /\ left_queue' = r.queue
          /\ IF r.found
             THEN call_response' = r.resp /\ call_pc' = "returned"
             ELSE call_response' = None /\ call_pc' = "wait"
    /\ UNCHANGED <<call_id, call_seqnum, call_retries>>
    /\ UNCHANGED notCallVars

\* The destination's handler answers a datagram with seqnum + 1 and the
\* requester's _listen puts the response on the queue, whether or not the
\* call that sent the datagram is still waiting.
CallAnswered(d) ==
    /\ d \in unanswered
    /\ unanswered' = unanswered \ {d}
    /\ left_queue' = Append(left_queue, [seqnum |-> d.seqnum + 1, call |-> d.call])
    /\ UNCHANGED <<call_id, call_pc, call_seqnum, call_retries, call_attempts,
                   call_response>>
    /\ UNCHANGED notCallVars

\* get_response wakes before its timer fires and finds seqnum + 1 in the queue.
CallWake ==
    /\ call_pc = "wait"
    /\ LET r == ScanResponses(left_queue, call_seqnum + 1)
       IN /\ r.found
          /\ left_queue' = r.queue
          /\ call_response' = r.resp
          /\ call_pc' = "returned"
    /\ UNCHANGED <<call_id, call_seqnum, call_retries, call_attempts, unanswered>>
    /\ UNCHANGED notCallVars

\* get_response's timer fires: None, the attempt counts as a timeout.
CallTimeout ==
    /\ call_pc = "wait"
    /\ call_pc' = "loop"
    /\ UNCHANGED <<call_id, call_seqnum, call_retries, call_attempts, unanswered,
                   left_queue, call_response>>
    /\ UNCHANGED notCallVars

\* The loop ends without a response: CTPConnectionError.
CallFail ==
    /\ call_pc = "loop"
    /\ ~(call_attempts < MaxAttempts(call_retries))
    /\ call_pc' = "failed"
    /\ UNCHANGED <<call_id, call_seqnum, call_retries, call_attempts, unanswered,
                   left_queue, call_response>>
    /\ UNCHANGED notCallVars

(***************************************************************************)
(* Specifications.                                                         *)
(***************************************************************************)

Init ==
    /\ CtpInit /\ SrvInit /\ SyncInit /\ FilesInit /\ ManifestInit /\ PushInit
    /\ RequestInit /\ TempInit /\ BlockInit /\ CodecInit /\ DirInit /\ EndInit /\ MissingInit /\ AddInit /\ StoreInit /\ RaceInit /\ HandleInit /\ ThreadInit /\ SendInit /\ CallInit

NextCTP ==
    \/ \E s \in RespSeqNums : ListenResponse(s)
    \/ \E c \in Callers, s \in SeqNums, r \in 0..MaxRetries : SendRequestBegin(c, s, r)
    \/ \E c \in Callers : SendRequestAttempt(c)
    \/ \E c \in Callers : GetResponseWake(c)
    \/ \E c \in Callers : GetResponseTimeout(c)
    \/ \E c \in Callers : SendRequestFail(c)

SpecCTP == Init /\ [][NextCTP]_vars

\* The caller threads run and every started timer fires.
SpecCTPFair ==
    /\ SpecCTP
    /\ \A c \in Callers : WF_vars(SendRequestAttempt(c))
    /\ \A c \in Callers : WF_vars(GetResponseTimeout(c))
    /\ \A c \in Callers : WF_vars(SendRequestFail(c))

\* The control server with two peers: its listener, the Timers, the clock and
\* the watcher threads.
Next ==
    \/ \E p \in TwoPeers, a \in Addrs, c \in ClusterIds, t \in RequestTypes,
          s \in SeqNums : HandleRequest(p, a, c, t, s)
    \/ \E c \in KnownClusters, p \in PeerIds : TimerExpire(c, p)
    \/ \E c \in KnownClusters, i \in 1..MaxUntracked : UntrackedExpire(c, i)
    \/ Tick
    \/ \E c \in KnownClusters : WatcherPush(c)
    \/ \E c \in KnownClusters : WatcherAck(c)

Spec == Init /\ [][Next]_vars

\* The control server with two peers that send from one address each, with
\* one seqnum, to a cluster the server knows.
NextTimers ==
    \/ \E p \in TwoPeers, c \in KnownClusters, t \in RequestTypes :
          HandleRequest(p, "a1", c, t, 0)
    \/ \E c \in KnownClusters, p \in PeerIds : TimerExpire(c, p)
    \/ \E c \in KnownClusters, i \in 1..MaxUntracked : UntrackedExpire(c, i)
    \/ Tick
    \/ \E c \in KnownClusters : WatcherPush(c)
    \/ \E c \in KnownClusters : WatcherAck(c)

\* Time passes, due Timers fire and the watcher threads run.
Fairness ==
    /\ WF_vars(Tick)
    /\ \A c \in KnownClusters, p \in PeerIds : WF_vars(TimerExpire(c, p))
    /\ \A c \in KnownClusters, i \in 1..MaxUntracked : WF_vars(UntrackedExpire(c, i))
    /\ \A c \in KnownClusters : WF_vars(WatcherPush(c))
    /\ \A c \in KnownClusters : WF_vars(WatcherAck(c))

SpecTimersFair == Init /\ [][NextTimers]_vars /\ Fairness

\* The control server with three peers that send from one address each, with
\* one seqnum, to a cluster the server knows.
NextWatch ==
    \/ \E p \in PeerIds, c \in KnownClusters, t \in RequestTypes :
          HandleRequest(p, "a1", c, t, 0)
    \/ \E c \in KnownClusters, p \in PeerIds : TimerExpire(c, p)
    \/ \E c \in KnownClusters, i \in 1..MaxUntracked : UntrackedExpire(c, i)
    \/ Tick
    \/ \E c \in KnownClusters : WatcherPush(c)
    \/ \E c \in KnownClusters : WatcherAck(c)

SpecWatch == Init /\ [][NextWatch]_vars

SpecWatchFair == SpecWatch /\ Fairness

\* A peer runs sync_files for the file f.
NextSync ==
    \/ \E size \in FileSizes, pm \in Peermaps : SyncBegin(size, pm)
    \/ SyncRequest
    \/ SyncStore

SpecSync == Init /\ [][NextSync]_vars

\* A peer runs sync_manifest against the server.
NextManifest ==
    \/ \E names \in FileinfoMaps, answered \in BOOLEAN :
          SyncManifestBegin(names, answered)
    \/ \E answered \in BOOLEAN : FetchManifestBlock(answered)
    \/ ParseManifest

SpecManifest == Init /\ [][NextManifest]_vars

\* The server's descriptors and manifest under NEW_CRINFO_NOTIF,
\* MANIFEST_REQUEST and BLOCK_REQUEST.
NextFiles ==
    \/ \E names \in StartNames : ServerStart(names)
    \/ \E body \in NotifBodies : HandleNewCrinfoNotif(body)
    \/ HandleManifestRequest
    \/ \E packet \in BlockPackets : HandleBlockRequest(packet)

SpecFiles == Init /\ [][NextFiles]_vars

\* A peer is pushed peer lists and drops peers that do not answer.
NextPush ==
    \/ \E peerlist \in PushBodies : HandlePeerlistPush(peerlist)
    \/ \E i \in 1..3 : PeerDown(i)

SpecPush == Init /\ [][NextPush]_vars

\* One send_request call with any msg_type argument, and the destination.
NextRequest ==
    \/ \E t \in MsgTypeArgs, s \in SeqNumValues, r \in 0..MaxRetries, b \in Timeouts :
           SendRequest(t, s, r, b)
    \/ SendMessage
    \/ GetResponseFound
    \/ GetResponseNone
    \/ SendRequestRaise
    \/ \E rt \in HandlerResponseTypes : HandleDatagram(rt)

SpecRequest == Init /\ [][NextRequest]_vars

\* A file is created, its blocks are downloaded in any order, and its CRTEMP
\* file is written and read at any time.
NextTemp ==
    \/ \E n \in 1..MaxBlocks : NewFile(n)
    \/ \E i \in 1..MaxBlocks, d \in BlockDatas : DownloadBlock(i, d)
    \/ WriteTempFile
    \/ FromTempFile

SpecTemp == Init /\ [][NextTemp]_vars

\* A block is packed, and the packet is unpacked.
NextBlock ==
    \/ \E h \in PackHashes, i \in PackIds, d \in PackDatas : PackBlock(h, i, d)
    \/ UnpackBlock

SpecBlock == Init /\ [][NextBlock]_vars

\* A message is packed, and the packet is unpacked.
NextCodec ==
    \/ \E t \in DOMAIN CTPMessageType, d \in MessageBodies,
          c \in MessageIds, s \in MessageIds : PackMessage(t, d, c, s)
    \/ UnpackMessage

SpecCodec == Init /\ [][NextCodec]_vars

\* A directory is filled, refreshed, and refreshed again after removals.
NextDir ==
    \/ \E ea \in FullEntries("a"), eb \in FewEntries("b"), s \in BOOLEAN :
          Populate(ea, eb, s)
    \/ \E k \in {"data", "temp", "crinfo"}, n \in DirNames : RemoveFile(k, n)
    \/ RefreshBegin
    \/ \E k \in {"data", "temp"}, n \in DirNames : RefreshScanDir(Child(k, n))
    \/ RefreshScanned
    \/ \E child \in {Child("crinfo", n) : n \in DirNames} \cup {StrayChild} :
          RefreshScanCrinfo(child)
    \/ RefreshEnd

SpecDir == Init /\ [][NextDir]_vars

\* The control server until and after Server.end().  The threads that end()
\* does not join take their remaining steps after it: a watcher that passed
\* its test of the stop signal before it was set still pushes once.
NextEnd ==
    \/ \E p \in TwoPeers, c \in KnownClusters, t \in RequestTypes :
          ~ended /\ HandleRequest(p, "a1", c, t, 0)
    \/ \E p \in TwoPeers, c \in KnownClusters, t \in RequestTypes :
          HandleLastRequest(p, "a1", c, t, 0)
    \/ ListenerStop
    \/ \E c \in KnownClusters, p \in PeerIds : TimerExpire(c, p)
    \/ \E c \in KnownClusters, i \in 1..MaxUntracked : UntrackedExpire(c, i)
    \/ Tick
    \/ \E c \in KnownClusters : WatcherPush(c)
    \/ \E c \in KnownClusters : ~ended /\ WatcherAck(c)
    \/ \E c \in KnownClusters : WatcherReturn(c)
    \/ \E c \in KnownClusters : WatcherAckEnd(c)
    \/ ServerEnd

SpecEnd == Init /\ [][NextEnd]_vars

\* A peer runs sync_manifest against the server, and again after a failure.
NextResync ==
    \/ \E names \in FileinfoMaps, answered \in BOOLEAN :
          SyncManifestBegin(names, answered)
    \/ \E answered \in BOOLEAN : FetchManifestBlock(answered)
    \/ ParseManifest
    \/ \E answered \in BOOLEAN : SyncManifestAgain(answered)

SpecResync == Init /\ [][NextResync]_vars

\* A peer runs sync_manifest to its end against a server that answers the
\* manifest requests.
NextMissing ==
    \/ \E names \in ServerNames : SyncManifestBegin(names, TRUE)
    \/ FetchManifestBlock(TRUE)
    \/ ParseManifest
    \/ \E local \in LocalNames : ReqMissingBegin(local)
    \/ \E answered \in BOOLEAN : ReqMissingFileinfo(answered)
    \/ ReqMissingEnd

SpecMissing == Init /\ [][NextMissing]_vars

\* add_fileinfo is called on a shared directory, any number of times.
NextAdd ==
    \E name \in DirNames, size \in AddSizes, hash \in AddHashes :
        AddFileinfo(name, size, hash)

SpecAdd == Init /\ [][NextAdd]_vars

\* A shared directory is loaded, blocks arrive and files are stored.
NextStore ==
    \/ \E ea \in FullEntries("a"), eb \in FewEntries("b") : Populate(ea, eb, FALSE)
    \/ RefreshBegin
    \/ \E k \in {"data", "temp"}, n \in DirNames : RefreshScanDir(Child(k, n))
    \/ RefreshScanned
    \/ \E n \in DirNames : RefreshScanCrinfo(Child("crinfo", n))
    \/ RefreshEnd
    \/ \E n \in DirNames, i \in 1..2 : FillBlock(n, i)
    \/ \E n \in DirNames : StoreFile(n)

SpecStore == Init /\ [][NextStore]_vars

\* sync_files calls get_peer again and again while the listener thread
\* handles PEERLIST_PUSH requests.
NextRace ==
    \/ \E list \in PushedLists : ParseClear(list)
    \/ ParseInsert
    \/ \E n \in 0..2 : GetPeerLen(n)
    \/ GetPeerIndex
    \/ GetPeerKey
    \/ GetPeerReturn

SpecRace == Init /\ [][NextRace]_vars

\* A peer's handler handles the requests it is sent, pushes among them.
NextPeer ==
    \/ \E peerlist \in PushBodies : HandlePeerlistPush(peerlist)
    \/ \E msg_type \in PeerRequests \ {"PEERLIST_PUSH"}, lookup \in BlockLookups :
           PeerHandle(msg_type, lookup)

SpecPeer == Init /\ [][NextPeer]_vars

\* sync_files keeps running: the workflow thread takes its next step.  Weak
\* fairness of SyncRequest is written out, with the guard of the action as
\* its enabling condition (every SyncRequest step changes the counter, the
\* peermap or block_idx).
SyncRequestEnabled == sync_pc = "sync" /\ block_idx < block_count(filesize)

SpecSyncFair ==
    /\ SpecSync
    /\ ([]<>(~SyncRequestEnabled) \/ []<><<SyncRequest>>_vars)
    /\ WF_vars(SyncStore)

\* The threads of a server with one cluster and two peers, interleaved
\* statement by statement.
NextThreads ==
    \/ \E p \in TwoPeers, t \in RequestTypes : ListenerCheck(p, t)
    \/ ListenerReset
    \/ \E p \in TwoPeers : TimerNone(p)
    \/ \E p \in TwoPeers : TimerRemove(p)
    \/ WatchIterate
    \/ WatchNext

SpecThreads == Init /\ [][NextThreads]_vars

\* The listener and the watchers push peer lists at the same time.
NextSend ==
    \/ \E th \in Senders, c \in PushClusters : SendSetClusterId(th, c)
    \/ \E th \in Senders : SendWithClusterId(th)
    \/ \E th \in Senders : SendClearClusterId(th)

SpecSend == Init /\ [][NextSend]_vars

\* One peer calls send_request MaxCalls times, one call after the other; the
\* destination answers each datagram at some time or never.
NextCalls ==
    \/ \E s \in SeqNums, r \in 0..MaxRetries : CallBegin(s, r)
    \/ CallAttempt
    \/ \E d \in unanswered : CallAnswered(d)
    \/ CallWake
    \/ CallTimeout
    \/ CallFail

SpecCalls == Init /\ [][NextCalls]_vars

(***************************************************************************)
(* Claims about the request/response engine.                               *)
(***************************************************************************)

Returned == {c \in Callers : pc[c] = "returned"}
QueuedRids == {responses[i].rid : i \in 1..Len(responses)}
ReturnedRids == {response[c].rid : c \in Returned}

\* C1: with several callers blocked in send_request on one peer, a call returns
\* only a response whose seqnum is its own seqnum + 1, no response object is
\* returned to two callers, and every response that left the queue was returned
\* to a caller that expected its seqnum.
C1_ResponseCorrelation ==
    /\ \A c \in Returned : response[c].seqnum = seqnum[c] + 1
    /\ \A c1, c2 \in Returned : c1 # c2 => response[c1].rid # response[c2].rid
    /\ QueuedRids \cap ReturnedRids = {}
    /\ QueuedRids \cup ReturnedRids = 1..nextRid
    /\ Len(responses) = Cardinality(QueuedRids)

\* Two callers that expected the same seqnum have both returned, each with its
\* own response.
C1_Witness ==
    \E c1, c2 \in Callers :
        /\ c1 # c2
        /\ pc[c1] = "returned" /\ pc[c2] = "returned"
        /\ seqnum[c1] = seqnum[c2]
        /\ attempts[c1] = 1 /\ attempts[c2] = 2

InCall(c) == pc[c] \in {"loop", "wait"}
Ended(c) == pc[c] \in {"returned", "failed"}

JoinHandled ==
    /\ request.msg_type = "CLUSTER_JOIN_REQUEST"
    /\ request.cluster_id \in KnownClusters

\* body lists exactly the entries of pm, one line per peer, ascending by peer_id.
ListsPeermap(body, pm) ==
    /\ Len(body) = Cardinality(DOMAIN pm)
    /\ {body[i].peer_id : i \in 1..Len(body)} = DOMAIN pm
    /\ \A i \in 1..Len(body) : body[i].address = pm[body[i].peer_id]
    /\ \A i, j \in 1..Len(body) : i < j => body[i].peer_id < body[j].peer_id

\* C3: when the server has handled a CLUSTER_JOIN_REQUEST of peer p for a known
\* cluster, p is in the cluster's peermap with the datagram's source address,
\* peertimers[p] is a Timer started with the full interval, and the one
\* CLUSTER_JOIN_RESPONSE (to the source address, seqnum + 1) lists every peer
\* of that peermap, p included, one line per peer in ascending peer_id order.
C3_JoinRegistersPeer ==
    JoinHandled =>
        LET c == request.cluster_id
            p == request.sender_id
        IN /\ p \in DOMAIN peermap[c]
           /\ peermap[c][p] = request.addr
           /\ peertimers[c][p] = Timer(TIMEOUT_INTERVAL)
           /\ Len(outbox) >= 1
           /\ outbox[1].msg_type = "CLUSTER_JOIN_RESPONSE"
           /\ outbox[1].dest = request.addr
           /\ outbox[1].seqnum = request.seqnum + 1
           /\ outbox[1].cluster_id = c
           /\ ListsPeermap(outbox[1].data, peermap[c])
           /\ \E i \in 1..Len(outbox[1].data) :
                  outbox[1].data[i] = [peer_id |-> p, address |-> request.addr]
           /\ \A i \in 2..Len(outbox) : outbox[i].msg_type # "CLUSTER_JOIN_RESPONSE"

\* Peer 2 has joined again, from address a2, a cluster that holds two peers.
C3_Witness ==
    /\ JoinHandled
    /\ request.sender_id = 2
    /\ request.addr = "a2"
    /\ Cardinality(DOMAIN peermap[request.cluster_id]) = 2
    /\ \E i \in 1..Len(untracked[request.cluster_id]) :
           untracked[request.cluster_id][i] = [peer_id |-> 2, rem |-> TIMEOUT_INTERVAL]

C5_UnknownClusterRefused ==
    (request.msg_type = "CLUSTER_JOIN_REQUEST"
        /\ request.cluster_id \notin KnownClusters)
    => /\ listening
       /\ Len(outbox) = 1
       /\ outbox[1].msg_type = "INVALID_REQ"
       /\ outbox[1].data = "No such cluster."
       /\ outbox[1].seqnum = request.seqnum + 1

\* C6: a peer is removed from a peermap only when the server has handled no
\* request of it for the liveness interval.
C6_ActivePeerKept ==
    [][\A c \in KnownClusters : \A p \in DOMAIN peermap[c] :
          p \notin DOMAIN peermap'[c] => idle[p] >= TIMEOUT_INTERVAL]_vars

\* C7: the Timer of a peer in the peermap is started and is due exactly when
\* the server has handled no message of the peer for the liveness interval; a
\* peer that has been silent for the interval leaves the peermap (unless a
\* message of it is handled at that instant), and every removal raises
\* peer_left.
C7_SilentPeerRemoved ==
    /\ [](\A c \in KnownClusters : \A p \in DOMAIN peermap[c] :
            /\ peertimers[c][p].st = "started"
            /\ peertimers[c][p].rem = TIMEOUT_INTERVAL - idle[p])
    /\ [][\A c \in KnownClusters : \A p \in DOMAIN peermap[c] :
            p \notin DOMAIN peermap'[c] => peer_left'[c]]_vars
    /\ \A c \in KnownClusters, p \in TwoPeers :
            (p \in DOMAIN peermap[c] /\ idle[p] = TIMEOUT_INTERVAL)
            ~> (p \notin DOMAIN peermap[c] \/ idle[p] = 0)

\* Peer 1 was removed by the Timer peertimers held, a whole interval after its
\* last message, while peer 2 stays; peer_left is raised.
C7_Witness ==
    \E c \in KnownClusters :
        /\ DOMAIN peermap[c] = {2}
        /\ 1 \in DOMAIN peertimers[c]
        /\ peertimers[c][1] = NoTimer
        /\ idle[1] = TIMEOUT_INTERVAL
        /\ untracked[c] = <<>>
        /\ peer_left[c]
        /\ 1 \in unpublished[c]

\* C8: every peer evicted by a Timer is, eventually, omitted from a peer list
\* the watcher pushes to the peers that remain (or has joined again).
C8_EvictionPublished ==
    \A c \in KnownClusters, p \in PeerIds :
        (p \in unpublished[c]) ~> (p \notin unpublished[c])

(***************************************************************************)
(* Claims about sync_files and sync_manifest.                              *)
(***************************************************************************)

\* C9: when sync_files of a file has ended and a peer that holds the whole
\* file is in the peermap, every block of the local copy has the data of
\* that block of the file, and the file is stored as the final file, its
\* .crtemp gone.
C9_SyncDownloadsFile ==
    (sync_pc = "done" /\ \E i \in 1..Len(local_peermap) : local_peermap[i] = "h")
        => /\ \A j \in 0..(block_count(filesize) - 1) : block_data(j) = HolderData(j)
           /\ disk = [file |-> TRUE, crtemp |-> FALSE]

\* C10: a sync_manifest in which the server answered every request returns
\* with the manifest file fully downloaded and stored, and manifest_filelist
\* equal to the server's filenames, whatever the number of blocks of the
\* manifest.
C10_ManifestSynced ==
    manifest_pc \in {"returned", "RuntimeError"}
        => /\ manifest_pc = "returned"
           /\ manifest_downloaded
           /\ manifest_disk.file /\ manifest_disk.data = manifest_bytes(DOMAIN fileinfo_map)
           /\ manifest_filelist = sorted_names(DOMAIN fileinfo_map)

(***************************************************************************)
(* Claims about the server's descriptors and manifest.                     *)
(***************************************************************************)

\* The manifest as a peer gets it from the server as it is: the blocks of the
\* BLOCK_RESPONSEs to the requests for the blocks of the manifest's FileInfo,
\* joined.
served_manifest ==
    LET info == manifest_fileinfo(manifest_file)
        n == block_count(info.filesize)
        served == [i \in 0..(n - 1) |->
                     unpack(server_handle_block_request(
                                pack(info.filehash, i, <<>>)).data).data]
    IN join_blocks(served, n)

\* A filename that is a line of its own in the manifest: not blank, no CRLF.
PlainName(name) == ~IsBlank(name) /\ find(name, CRLF) = 0

ACK_SUCCESS == <<115, 117, 99, 99, 101, 115, 115>>            \* b'success'
ACK_EXISTS == <<101, 114, 114, 111, 114, 58, 32, 101, 120, 105, 115, 116, 115>>      \* b'error: exists'
Ack(data) == [msg_type |-> "NEW_CRINFO_NOTIF_ACK", data |-> data]

\* C12: a NEW_CRINFO_NOTIF with well-formed CRINFO bytes that names a
\* filename already in fileinfo_map is answered NEW_CRINFO_NOTIF_ACK
\* 'error: exists' and leaves fileinfo_map, the stored descriptors and the
\* manifest as they were, whatever filehash it carries.
C12_KnownNameRefused ==
    [][\A name \in NotifNames, hash \in {HashX, HashY} :
          (HandleNewCrinfoNotif(notif_body(name, hash)) /\ name \in DOMAIN fileinfo_map)
              => /\ file_response' = Ack(ACK_EXISTS)
                 /\ UNCHANGED <<fileinfo_map, crinfo_dir, manifest_file>>]_vars

\* C13: a NEW_CRINFO_NOTIF with well-formed CRINFO bytes that names a
\* filename not in fileinfo_map is answered 'success', and afterwards the
\* filename is in fileinfo_map, its descriptor is stored and the manifest
\* lists it, whatever filehash it carries.
C13_NewNameAdded ==
    [][\A name \in {<<97>>, <<98>>}, hash \in {HashX, HashY} :
          (HandleNewCrinfoNotif(notif_body(name, hash)) /\ name \notin DOMAIN fileinfo_map)
              => /\ file_response' = Ack(ACK_SUCCESS)
                 /\ name \in DOMAIN fileinfo_map'
                 /\ name \in DOMAIN crinfo_dir'
                 /\ \E i \in 1..Len(parse_manifest(manifest_file')) :
                        parse_manifest(manifest_file')[i] = name]_vars

(***************************************************************************)
(* Claims about the block handlers.                                        *)
(***************************************************************************)

\* C14: the body of a peer's response to the BLOCK_REQUEST for the block
\* sync_files is at is the packed block of that id with its data if the peer
\* has the block, and empty if it has not.
C14_BlockAnswered ==
    (sync_pc = "sync" /\ block_idx < block_count(filesize)) =>
        \A q \in {"h", "m"} :
            handle_block_request(q, pack(FileHash, block_idx, <<>>))
                = IF RemoteData(q, block_idx) # <<>>
                  THEN pack(FileHash, block_idx, RemoteData(q, block_idx))
                  ELSE <<>>

\* C15: the server answers a BLOCK_REQUEST whose filehash is not that of the
\* manifest as it is with INVALID_REQ; one whose filehash is the manifest's
\* is answered with a BLOCK_RESPONSE that carries the manifest's block of the
\* requested block_id when the manifest has such a block, and is not served
\* any block when it has not.
C15_OnlyManifestServed ==
    [][\A hash \in BlockHashes, id \in BlockIds :
          HandleBlockRequest(pack(hash, id, <<>>)) =>
              LET current == manifest_fileinfo(manifest_file).filehash
              IN IF hash # current
                 THEN file_response'.msg_type = "INVALID_REQ"
                 ELSE IF id < block_count(Len(manifest_file))
                 THEN file_response' =
                        [msg_type |-> "BLOCK_RESPONSE",
                         data |-> pack(current, id, file_block(manifest_file, id))]
                 ELSE file_response'.msg_type = "INVALID_REQ"]_vars

(***************************************************************************)
(* Claims about PEERLIST_PUSH.                                             *)
(***************************************************************************)

\* The PeerInfos of a server peermap that a peer keeps.
Listed(pm, kept(_)) ==
    {PeerInfo(str_int(q), AddressOf(pm[q])) : q \in {q \in DOMAIN pm : kept(q)}}

PeermapSet == {peer_peermap[i] : i \in 1..Len(peer_peermap)}

\* C16 as stated: after a PEERLIST_PUSH of the peer list of a server peermap,
\* the peer's peermap is exactly the listed peers other than the one with its
\* own peer_id, and no response is sent.
C16_Original ==
    [][\A pm \in ServerPeermaps \ {<<>>} :
          (/\ push_body' = [data |-> peerlist_str(pm)]
           /\ HandlePeerlistPush(peerlist_str(pm))) =>
              /\ PeermapSet' = Listed(pm, LAMBDA q : q # SelfId)
              /\ push_sent' = None]_vars

\* C16 as amended: after a PEERLIST_PUSH of the peer list of a server
\* peermap, the peer's peermap is exactly the listed peers that have neither
\* its peer_id nor its address, one entry each, whatever it held before, and
\* no response is sent; a body that is not a peer list leaves the peermap as
\* it was and is answered SERVER_ERROR.
C16_PushOverwritesPeermap ==
    [][/\ \A pm \in ServerPeermaps \ {<<>>} :
            (/\ push_body' = [data |-> peerlist_str(pm)]
             /\ HandlePeerlistPush(peerlist_str(pm))) =>
                /\ PeermapSet' = Listed(pm, LAMBDA q : q # SelfId /\ pm[q] # SelfAddr)
                /\ Len(peer_peermap') = Cardinality(PeermapSet')
                /\ push_sent' = None
       /\ \A peerlist \in {<<>>, <<120>>} :
            HandlePeerlistPush(peerlist) =>
                /\ peer_peermap' = peer_peermap
                /\ push_sent' = [msg_type |-> "SERVER_ERROR", data |-> <<>>]]_vars

\* A push that lists the peer itself and peers 2 and 3 was handled, and the
\* peermap holds peers 2 and 3.
C16_Witness ==
    /\ push_body = [data |-> peerlist_str((1 :> "a1") @@ (2 :> "a2") @@ (3 :> "a2"))]
    /\ {peer_peermap[i].peer_id : i \in 1..Len(peer_peermap)} = {str_int(2), str_int(3)}
    /\ push_sent = None

(***************************************************************************)
(* Claims about send_request's message types and sequence numbers.         *)
(***************************************************************************)

ResponseTypes == {t \in DOMAIN CTPMessageType : CTPMessageType[t] % 2 = 1}

\* C18: send_request called with a response type, or with a value that is
\* not a message type, raises ValueError; no datagram was sent and
\* get_response was not called.
C18_InvalidTypeRejected ==
    (req_pc # "idle" /\ msg_type_arg \in ResponseTypes \cup (MsgTypeArgs \ DOMAIN CTPMessageType)) =>
        /\ req_pc = "raised"
        /\ req_result = ValueError
        /\ datagrams = <<>>
        /\ reads = <<>>

\* send_request was called with BLOCK_RESPONSE and has raised.
C18_Witness ==
    /\ msg_type_arg = "BLOCK_RESPONSE"
    /\ req_pc = "raised"
    /\ req_result = ValueError

\* C19: whatever seqnum in 0 .. 2^32 - 1 the request carries, the requester
\* waits for seqnum + 1, every response of the handler carries seqnum + 1,
\* and seqnum + 1 is at most 2^32 - 1, so that it fits the 4-byte field and
\* the handler can send it.
C19_ResponseSeqnum ==
    /\ \A i \in 1..Len(reads) :
          /\ reads[i].expected_seqnum = plus_one(req_seqnum)
          /\ int_leq(reads[i].expected_seqnum, MAX_INT_VALUE)
    /\ \A i \in 1..Len(resp_queue) : resp_queue[i].seqnum = plus_one(req_seqnum)
    /\ ~handler_raised

(***************************************************************************)
(* Claims about the CRTEMP file.                                           *)
(***************************************************************************)

\* The block ids of the downloaded blocks of a File.
downloaded_ids(file_blocks) ==
    {i - 1 : i \in {k \in 1..Len(file_blocks) : file_blocks[k].downloaded}}

\* C20: from_temp_file of the CRTEMP file that write_temp_file wrote for a
\* file returns a file with the same downloaded block ids and, for each of
\* them, the same data, whichever blocks of the file are downloaded.
C20_TempRoundTrip ==
    [][(FromTempFile /\ crtemp_file.data = write_temp_file(temp_blocks)) =>
          /\ loaded'.error = ""
          /\ downloaded_ids(loaded'.blocks) = downloaded_ids(temp_blocks)
          /\ \A i \in 1..Len(temp_blocks) :
                temp_blocks[i].downloaded =>
                    loaded'.blocks[i].data = temp_blocks[i].data]_vars

(***************************************************************************)
(* Claims about the codecs.                                                *)
(***************************************************************************)

\* C21: Block.unpack(Block.pack(b)) == b for every block b, whatever bytes
\* its filehash, block_id and data hold.
C21_BlockRoundTrip ==
    block_pc = "unpacked" => Block_eq(block_out, block_in)

\* C22: CTPMessage.unpack(CTPMessage.pack(m)) == m for every message m of a
\* known type with ids of 32 ASCII bytes and any body, and pack(m) is a
\* header of HEADER_LENGTH bytes followed by the body as it is.
C22_MessageRoundTrip ==
    /\ msg_pc # "idle" =>
          /\ Len(msg_packet) = HEADER_LENGTH + Len(msg_in.data)
          /\ SubSeq(msg_packet, Len(msg_packet) - Len(msg_in.data) + 1,
                    Len(msg_packet)) = msg_in.data
    /\ msg_pc = "unpacked" => CTPMessage_eq(msg_out, msg_in)

\* A NO_OP message with the id that holds NUL, CR and LF and a body that is
\* itself a packet was packed and unpacked.
C22_Witness ==
    /\ msg_pc = "unpacked"
    /\ msg_in.msg_type = "NO_OP"
    /\ msg_in.cluster_id = OddId
    /\ Len(msg_in.data) = HEADER_LENGTH
    /\ msg_out.error = ""

(***************************************************************************)
(* Claims about the shared directory.                                      *)
(***************************************************************************)

\* The filenames the directory represents: by a data file, by a .crtemp
\* file or by a descriptor.
OnDisk ==
    {n \in DirNames :
        data_files[n].exists \/ temp_files[n].exists \/ crinfo_files[n].exists}

\* C23: when refresh has returned, the keys of filemap are exactly the
\* filenames that a data file, a .crtemp file or a descriptor represents on
\* disk.
C23_FilemapIsDisk ==
    refresh_pc = "done" => DOMAIN filemap = OnDisk

\* C24: refresh never raises, and when it has returned every filename with
\* a well-formed descriptor is a key of filemap.
C24_RefreshNeverRaises ==
    /\ refresh_pc # "raised"
    /\ refresh_pc = "done" =>
          \A n \in DirNames :
              (crinfo_files[n].exists
                  /\ FileInfo_from_bytes(n, crinfo_files[n].data) # ValueError)
                  => n \in DOMAIN filemap

(***************************************************************************)
(* Claims about Server.end                                                 *)
(***************************************************************************)

\* C25: after Server.end() has returned, no step removes a peer from a
\* peermap and no step sends a PEERLIST_PUSH.
C25_EndStopsEverything ==
    [][ended =>
          /\ \A c \in KnownClusters : DOMAIN peermap[c] \subseteq DOMAIN peermap'[c]
          /\ \A i \in 1..Len(outbox') : outbox'[i].msg_type # "PEERLIST_PUSH"]_vars

(***************************************************************************)
(* Claims about removed peers                                              *)
(***************************************************************************)

\* Peers that were added to cluster c and are no longer in its peermap:
\* peertimers keeps an entry for every peer_id that add_peer has seen.
RemovedPeers(c) == DOMAIN peertimers[c] \ DOMAIN peermap[c]

\* The step handles a request other than CLUSTER_JOIN_REQUEST that a removed
\* peer of cluster c sent.
RemovedPeerAsks(c) ==
    IF request'.msg_type \in {"None", "CLUSTER_JOIN_REQUEST"} THEN FALSE
    ELSE request'.cluster_id = c /\ request'.sender_id \in RemovedPeers(c)

RequestDue ==
    /\ sync_pc = "sync"
    /\ block_idx < block_count(filesize)
    /\ Len(local_peermap) > 0

\* The peer at index (request counter mod |peermap|) of the local peermap.
PeerAtCounter == local_peermap[(counter % Len(local_peermap)) + 1]

\* C27: each BLOCK_REQUEST of sync_files goes to the peer q at index
\* (counter mod |peermap|) and increments the counter once.  When q gives no
\* response, q is removed from the local peermap and the loop stays at the
\* same block; when q answers miss, the peermap is unchanged and the loop
\* stays at the same block; the block is downloaded only if q holds it.
C27_NextPeerByCounter ==
    [][RequestDue =>
          /\ counter' = (counter + 1) % CounterCycle
          /\ sync_pc' = "sync"
          /\ PeerAtCounter = "s" =>
                 /\ local_peermap' =
                        QueueRemove(local_peermap,
                                    (counter % Len(local_peermap)) + 1)
                 /\ block_idx' = block_idx
          /\ PeerAtCounter = "m" =>
                 /\ local_peermap' = local_peermap
                 /\ block_idx' = block_idx
          /\ block_idx' # block_idx =>
                 /\ PeerAtCounter = "h"
                 /\ local_peermap' = local_peermap]_vars

\* After a miss of "m" and no response from "s", the third request for block
\* 0 is due and goes to "m" again.
C27_Witness ==
    /\ RequestDue
    /\ counter = 2
    /\ block_idx = 0
    /\ local_peermap = <<"m", "h">>

(***************************************************************************)
(* Claims about exceptions in request handlers                             *)
(***************************************************************************)

\* ServerRequestHandler.handle raises on req: clusters[cluster_id] is a
\* KeyError, reset_peertimer on a None timer an AttributeError.
handle_raises(req) ==
    IF req.cluster_id \notin KnownClusters THEN TRUE
    ELSE /\ req.sender_id \in DOMAIN peermap[req.cluster_id]
         /\ peertimers[req.cluster_id][req.sender_id].st = "None"

\* The SERVER_ERROR responses among the datagrams of a step.
ServerErrors(out) ==
    {i \in 1..Len(out) : out[i].msg_type = "SERVER_ERROR"}

\* C28: when the handler of a request other than NO_OP raises, exactly one
\* SERVER_ERROR response with the request's seqnum + 1 is sent and the
\* listener goes on listening.
C28_HandlerErrorAnswered ==
    [][IF request'.msg_type \in {"None", "NO_OP"} THEN TRUE
       ELSE handle_raises(request') =>
                /\ Cardinality(ServerErrors(outbox')) = 1
                /\ \A i \in ServerErrors(outbox') :
                       outbox'[i].seqnum = request'.seqnum + 1
                /\ listening']_vars

(***************************************************************************)
(* Claims about the partial copy of the manifest                           *)
(***************************************************************************)

\* The blocks of the manifest file that the peer holds.
FetchedBlocks(file_blocks) ==
    {i \in DOMAIN file_blocks : file_blocks[i] # <<>>}

\* C29: when the fetch of the manifest's blocks ends in a failure, the blocks
\* fetched so far are on disk as the .crtemp of the manifest, and the next
\* sync_manifest starts with these blocks downloaded, so that it does not
\* request them again.
C29_PartialCopyReused ==
    [][/\ (manifest_pc' \in FetchFailures /\ FetchedBlocks(manifest_blocks') # {})
              => manifest_disk'.crtemp
       /\ (manifest_pc \in FetchFailures /\ manifest_pc' = "fetch")
              => \A i \in FetchedBlocks(manifest_blocks) :
                     manifest_blocks'[i] = manifest_blocks[i]]_vars

(***************************************************************************)
(* Claims about the descriptors fetched by sync_manifest                   *)
(***************************************************************************)

\* C30: when sync_manifest has returned, every filename of manifest_filelist
\* is a key of the shared directory's filemap, and the File of each filename
\* that was not a key before has no block downloaded.
C30_ListedFilesInstalled ==
    missing_pc = "returned" =>
        \A i \in 1..Len(manifest_filelist) :
            /\ manifest_filelist[i] \in DOMAIN shared_filemap
            /\ manifest_filelist[i] \notin local_before =>
                   \A j \in 1..Len(shared_filemap[manifest_filelist[i]]) :
                       ~shared_filemap[manifest_filelist[i]][j].downloaded

(***************************************************************************)
(* Claims about SharedDirectory.add_fileinfo                               *)
(***************************************************************************)

\* C31: after add_fileinfo(name, bytes) with the CRINFO bytes of a file of any
\* size >= 0, the call has returned, <name>.crinfo and <name>.crtemp are on
\* disk and filemap[name] is a File of block_count blocks, none downloaded.
C31_AddFileinfoInstalls ==
    add_result.name # "" =>
        /\ add_result.error = ""
        /\ crinfo_files[add_result.name].exists
        /\ temp_files[add_result.name].exists
        /\ add_result.name \in DOMAIN filemap
        /\ Len(filemap[add_result.name]) = block_count(add_result.filesize)
        /\ \A i \in 1..Len(filemap[add_result.name]) :
               ~filemap[add_result.name][i].downloaded

(***************************************************************************)
(* Claims about Peer.store_file                                            *)
(***************************************************************************)

\* C32: after store_file(f) exactly one of D/<filename> and
\* D/<filename>.crtemp exists: the data file if and only if every block of f
\* is downloaded, the temp file otherwise.
C32_StoreLeavesOneCopy ==
    stored_name # "" =>
        /\ data_files[stored_name].exists # temp_files[stored_name].exists
        /\ data_files[stored_name].exists <=> File_downloaded(filemap[stored_name])

\* A file loaded from its .crtemp has received its last block and has been
\* stored as the data file.
C32_Witness ==
    /\ stored_name = "a"
    /\ data_files["a"].exists
    /\ data_files["a"].data = <<97, 98>>
    /\ ~temp_files["a"].exists

(***************************************************************************)
(* Claims about the peermap between the workflow and the listener          *)
(***************************************************************************)

\* C33: get_peer, running beside the handler of a PEERLIST_PUSH, reads either
\* the peermap before the push or the complete new one, never an empty or
\* partly filled one, and does not raise.
C33_ReaderSeesWholePeermap ==
    /\ get_seen \in {push_prev, push_new}
    /\ get_pc # "raised"

(***************************************************************************)
(* Claims about PeerRequestHandler.handle                                  *)
(***************************************************************************)

\* C34: a peer that is sent a request outside its dispatch table answers
\* UNEXPECTED_REQ.
C34_UnknownRequestUnexpected ==
    peer_handled.request \in PeerRequests \ PeerDispatch =>
        peer_handled.sent = Sent("UNEXPECTED_REQ", peer_handled.sent.data)

(***************************************************************************)
(* Claims about the termination of sync_files                              *)
(***************************************************************************)

\* C35: sync_files terminates, whatever the peers of the peermap answer: a
\* sync_files that has begun reaches the end of the file's pass.
C35_SyncFilesTerminates == (sync_pc = "sync") ~> (sync_pc = "done")

(***************************************************************************)
(* Claims about the server's Timers and its threads                        *)
(***************************************************************************)

\* C36: in every state of the server, each peer of a cluster's peermap has
\* one started Timer, the one peertimers holds, a peer outside the peermap
\* has none, and no started Timer runs that peertimers does not hold.
C36_OneTimerPerPeer ==
    \A c \in KnownClusters :
        /\ untracked[c] = <<>>
        /\ \A p \in DOMAIN peermap[c] :
               p \in DOMAIN peertimers[c] /\ is_alive(peertimers[c][p])
        /\ \A p \in DOMAIN peertimers[c] \ DOMAIN peermap[c] :
               ~is_alive(peertimers[c][p])

\* C37: a peer_left raised while the watcher is between push_peerlist and
\* peer_left_ack is not lost: while a removal has not been followed by a
\* push of a list computed after it, the waiting watcher finds peer_left
\* set, and such a push follows.
C37_SignalNotLost ==
    /\ [](\A c \in KnownClusters :
            (unpublished[c] # {} /\ watcher[c] = "wait") => peer_left[c])
    /\ \A c \in KnownClusters : (unpublished[c] # {}) ~> (unpublished[c] = {})

\* C38: however a Timer's peer_timeout interleaves with the handling of a
\* request of the same peer or with an iteration of push_peerlist, no
\* exception ends the listener or the watcher.
C38_ThreadsKeepRunning ==
    /\ listener_pc # "crashed"
    /\ watch_pc # "crashed"

\* C39: every PEERLIST_PUSH sent to a peer of cluster C carries cluster_id C,
\* also when several threads are inside Server.send_request.
C39_PushCarriesItsCluster ==
    \A m \in pushed : m.carried = m.cluster

(***************************************************************************)
(* Claims about responses left in the queue                                *)
(***************************************************************************)

\* C40: the response a send_request call returns answers a datagram of that
\* call, never one of an earlier call that was left in the queue.
C40_ResponseOfThisCall ==
    call_pc = "returned" => call_response.call = call_id

====
